---- MODULE Spec2Model ----
(***************************************************************************)
(* The agent orchestration graph of backend/agent (graph.py, nodes/*.py,   *)
(* runner.py) and the pending-diff store (services/pending_diff_service).  *)
(*                                                                         *)
(* A run state is a function from the keys that are present to their       *)
(* values, read with Get(s, key, default) like Python's dict.get.  A node  *)
(* returns an update; the graph engine writes the update's keys that are   *)
(* declared in AgentState and drops the others (ApplyWrites).              *)
(***************************************************************************)
EXTENDS Naturals, Sequences, FiniteSets, TLC

VARIABLES
    env,            \* settings: which API keys are configured (config.py)
    sandbox,        \* files of the target repository on disk: path -> content
    state,          \* channel values of the thread's execution in progress
    pc,             \* node about to run | "idle" | "interrupted" | "raised" | "END"
    checkpoint,     \* InMemorySaver's entry for the thread, or NoCheckpoint
    phase,          \* "none" | "run" (run_agent stream) | "resume" (resume_agent stream)
    executed,       \* nodes executed in the current stream
    last,           \* node executed last in the current stream, or "none"
    resumeArgs,     \* arguments of the last resume_agent call
    resumeFrom,     \* what resume_agent found: "none" | "await_approval" | "END" | ...
    started,        \* run_agent has been called for the thread
    nResumes,       \* resume_agent calls so far
    nRestarts,      \* process restarts so far
    suspended,      \* the run_agent stream ended at the approval gate, not yet resumed
    failedBuilds,   \* builds of the run whose subprocess did not exit with code 0
    PENDING_BY_RUN, \* pending_diff_service._PENDING_BY_RUN
    LAST_RUN_ID,    \* pending_diff_service._LAST_RUN_ID
    call,           \* last pending-diff store call: [op, runId, file]
    ret,            \* value returned by the last store call or routing function
    stream          \* events and locals of the current run_agent / resume_agent stream

vars == <<env, sandbox, state, pc, checkpoint, phase, executed, last, resumeArgs,
          resumeFrom, started, nResumes, nRestarts, suspended, failedBuilds,
          PENDING_BY_RUN, LAST_RUN_ID, call, ret, stream>>

-----------------------------------------------------------------------------
(* Bounds of the model *)

MaxResumes == 1
MaxRestarts == 1
MaxLoopInput == 6
MaxErrorInput == 5

(* Program constants *)

ContextLoopCeiling == 4
ErrorCeiling == 3
FallbackAfterFailures == 2

-----------------------------------------------------------------------------
(* Python values *)

\* Optional[bool] (build_success): None, True, False
None == "None"
PyTrue == "True"
PyFalse == "False"
PyBool(b) == IF b THEN PyTrue ELSE PyFalse

\* dict.get(k, default).  A flag that is absent reads as FALSE where the code
\* only tests its truth (None and False are both falsy).
Get(s, k, default) == IF k \in DOMAIN s THEN s[k] ELSE default

Range(seq) == {seq[i] : i \in 1..Len(seq)}

-----------------------------------------------------------------------------
(* Strings whose characters the code inspects, spelled out *)

Spell(s) ==
    CASE s = "src/a.ts"    -> <<"s","r","c","/","a",".","t","s">>
      [] s = "package.json" -> <<"p","a","c","k","a","g","e",".","j","s","o","n">>
      [] s = "API docs"    -> <<"A","P","I"," ","d","o","c","s">>
      [] s = "Readme"      -> <<"R","e","a","d","m","e">>
      [] s = "wallet flow" -> <<"w","a","l","l","e","t"," ","f","l","o","w">>
      [] s = "doc"         -> <<"d","o","c">>
      [] s = "readme"      -> <<"r","e","a","d","m","e">>
      [] s = "guide"       -> <<"g","u","i","d","e">>
      [] s = "api"         -> <<"a","p","i">>
      [] s = "reference"   -> <<"r","e","f","e","r","e","n","c","e">>
      [] s = "spec"        -> <<"s","p","e","c">>
      [] s = ".env"        -> <<".","e","n","v">>
      [] s = "f1"          -> <<"f","1">>
      [] s = "../f2"       -> <<".",".","/","f","2">>
      [] s = "."           -> <<".">>
      [] s = "/"           -> <<"/">>
      [] OTHER             -> <<>>

LowerChar(c) ==
    CASE c = "A" -> "a" [] c = "P" -> "p" [] c = "I" -> "i" [] c = "R" -> "r" [] OTHER -> c

Lower(chars) == [i \in 1..Len(chars) |-> LowerChar(chars[i])]

\* Python's  sub in text  on character sequences
Within(sub, text) ==
    \E i \in 1..(Len(text) + 1) :
        /\ i + Len(sub) - 1 <= Len(text)
        /\ SubSeq(text, i, i + Len(sub) - 1) = sub

DocKeywords == <<"doc", "readme", "guide", "api", "reference", "spec">>

-----------------------------------------------------------------------------
(* agent/state.py *)

AgentStateKeys ==
    {"prompt", "tree", "repo_path", "files_to_read", "file_contents", "plan_notes",
     "sdk_version", "diffs", "tool_diffs", "errors", "session_memory", "context_ready",
     "context_loop_count", "missing_info", "docs_retrieved", "imports_analyzed",
     "build_command", "build_output", "build_success", "error_count",
     "escalation_needed", "needs_tip", "needs_deposit", "research_queries",
     "analyzed_imports", "doc_context", "needs_yellow", "needs_simple_channel",
     "needs_multiparty", "needs_versioned", "prefer_yellow_tools", "needs_yellow_tools",
     "needs_simple_channel_tools", "needs_multiparty_tools", "needs_versioned_tools",
     "needs_tip_tools", "needs_deposit_tools", "yellow_init_status",
     "yellow_workflow_status", "yellow_versioned_status", "yellow_multiparty_status",
     "yellow_tip_status", "yellow_deposit_status", "yellow_initialized",
     "yellow_framework", "yellow_version", "yellow_dependencies",
     "yellow_devDependencies", "yellow_scripts", "yellow_engines", "yellow_author",
     "yellow_license", "yellow_repository", "yellow_bugs", "awaiting_approval",
     "approved_files", "pending_approval_files", "resume_from_approval", "thinking_log",
     "final_summary", "terminal_output", "error_analysis", "doc_retrieval_checklist",
     "doc_retrieval_reasoning", "targeted_docs_retrieved", "plan_corrections",
     "plan_correction_reasoning"}

\* The engine's write of a node's (or an input's) update: keys the state schema
\* does not declare are dropped, declared keys overwrite (no reducers).
ApplyWrites(s, update) ==
    CHOOSE r \in {[k \in DOMAIN s0 \cup (DOMAIN u \cap AgentStateKeys) |->
                    IF k \in DOMAIN u THEN u[k] ELSE s0[k]] : s0 \in {s}, u \in {update}} : TRUE

\* A node that mutates the state it was given and returns it
Mutate(s, update) ==
    CHOOSE r \in {[k \in DOMAIN s0 \cup DOMAIN u |-> IF k \in DOMAIN u THEN u[k] ELSE s0[k]] :
                    s0 \in {s}, u \in {update}} : TRUE

\* list prefix: a == b[:len(a)]
IsPrefix(a, b) == Len(a) <= Len(b) /\ SubSeq(b, 1, Len(a)) = a

Diff(file, oldCode, newCode) == [file |-> file, oldCode |-> oldCode, newCode |-> newCode]

EmptyFiles == [p \in {} |-> ""]

-----------------------------------------------------------------------------
(* agent/graph.py: routing functions *)

FileLike(item) == Within(Spell("."), Spell(item)) \/ Within(Spell("/"), Spell(item))

DocLike(item) ==
    /\ ~FileLike(item)
    /\ \E i \in 1..Len(DocKeywords) : Within(Spell(DocKeywords[i]), Lower(Spell(item)))

\* route_context_decision with the ceiling test off by one
route_context_decision_LateCeiling(s) ==
    LET loop_count == Get(s, "context_loop_count", 0)
        files_to_read == Get(s, "files_to_read", <<>>)
        file_contents == Get(s, "file_contents", EmptyFiles)
        missing == Get(s, "missing_info", <<>>)
        docs_retrieved == Get(s, "docs_retrieved", FALSE)
        file_like == SelectSeq(missing, FileLike)
        doc_like == SelectSeq(missing, DocLike)
    IN  IF loop_count > ContextLoopCeiling + 1 THEN "ready"
        ELSE IF Get(s, "context_ready", FALSE) THEN "ready"
        ELSE IF files_to_read # <<>> THEN "read_code"
        ELSE IF DOMAIN file_contents = {} THEN "read_code"
        ELSE IF file_like # <<>> THEN "read_code"
        ELSE IF ~docs_retrieved /\ doc_like # <<>> THEN "retrieve_docs"
        ELSE IF ~docs_retrieved THEN "retrieve_docs"
        ELSE "research"

\* route_context_decision that asks for docs before it looks at missing_info
route_context_decision_DocsFirst(s) ==
    LET loop_count == Get(s, "context_loop_count", 0)
        files_to_read == Get(s, "files_to_read", <<>>)
        file_contents == Get(s, "file_contents", EmptyFiles)
        missing == Get(s, "missing_info", <<>>)
        docs_retrieved == Get(s, "docs_retrieved", FALSE)
        file_like == SelectSeq(missing, FileLike)
    IN  IF loop_count > ContextLoopCeiling THEN "ready"
        ELSE IF Get(s, "context_ready", FALSE) THEN "ready"
        ELSE IF files_to_read # <<>> THEN "read_code"
        ELSE IF DOMAIN file_contents = {} THEN "read_code"
        ELSE IF ~docs_retrieved THEN "retrieve_docs"
        ELSE IF file_like # <<>> THEN "read_code"
        ELSE "research"

route_context_decision(s) ==
    LET loop_count == Get(s, "context_loop_count", 0)
        files_to_read == Get(s, "files_to_read", <<>>)
        file_contents == Get(s, "file_contents", EmptyFiles)
        missing == Get(s, "missing_info", <<>>)
        docs_retrieved == Get(s, "docs_retrieved", FALSE)
        file_like == SelectSeq(missing, FileLike)
        doc_like == SelectSeq(missing, DocLike)
    IN  IF loop_count > ContextLoopCeiling THEN "ready"
        ELSE IF Get(s, "context_ready", FALSE) THEN "ready"
        ELSE IF files_to_read # <<>> THEN "read_code"
        ELSE IF DOMAIN file_contents = {} THEN "read_code"
        ELSE IF file_like # <<>> THEN "read_code"
        ELSE IF ~docs_retrieved /\ doc_like # <<>> THEN "retrieve_docs"
        ELSE IF ~docs_retrieved THEN "retrieve_docs"
        ELSE "research"

\* check_build_result that takes every build result that is present for a success
check_build_result_Present(s) ==
    IF Get(s, "build_success", None) # None THEN "success" ELSE "failure"

check_build_result(s) ==
    IF Get(s, "build_success", None) = PyTrue THEN "success" ELSE "failure"

\* check_memory with an inclusive comparison
check_memory_Inclusive(s) ==
    IF Get(s, "error_count", 0) >= ErrorCeiling THEN "escalate" ELSE "retry"

\* check_memory that escalates one attempt later
check_memory_Late(s) ==
    IF Get(s, "error_count", 0) > ErrorCeiling + 1 THEN "escalate" ELSE "retry"

check_memory(s) ==
    IF Get(s, "error_count", 0) > ErrorCeiling THEN "escalate" ELSE "retry"

route_after_workflow(s) ==
    IF Get(s, "needs_versioned", FALSE) THEN "yellow_versioned"
    ELSE IF Get(s, "needs_tip", FALSE) THEN "yellow_tip"
    ELSE IF Get(s, "needs_deposit", FALSE) THEN "yellow_deposit"
    ELSE "write_code"

route_after_init(s) ==
    IF Get(s, "needs_yellow", FALSE) THEN "yellow_workflow"
    ELSE IF Get(s, "needs_versioned", FALSE) THEN "yellow_versioned"
    ELSE "yellow_workflow"

route_after_yellow(s) == "yellow_multiparty"

\* route_resume that ignores the resume flag
route_resume_IgnoresFlag(s) == "start_agent"

route_resume(s) ==
    IF Get(s, "resume_from_approval", FALSE) THEN "coding" ELSE "start_agent"


-----------------------------------------------------------------------------
(* The world outside the graph: settings, the sandbox, collaborator replies *)

RunId == "r1"
RunIds == {"r1", "r2"}

NoCheckpoint == [values |-> <<>>, next |-> "none"]

\* no handler has been called yet
NoCall == [op |-> "none", runId |-> None, file |-> None]

SandboxRoot == "/sandbox"

SandboxChoices ==
    { EmptyFiles,
      [p \in {"package.json", "src/a.ts"} |-> "c0"] }

\* OPENROUTER_API_KEY, GOOGLE_API_KEY configured or not; sandbox root set or not
Environments ==
    { [OPENROUTER_API_KEY |-> TRUE,  GOOGLE_API_KEY |-> TRUE,  root |-> TRUE],
      [OPENROUTER_API_KEY |-> TRUE,  GOOGLE_API_KEY |-> FALSE, root |-> FALSE],
      [OPENROUTER_API_KEY |-> FALSE, GOOGLE_API_KEY |-> FALSE, root |-> FALSE] }

\* An LLM call that does not return raises out of llm.ainvoke
Unreachable == [failure |-> "unreachable"]
\* A reply extract_json_from_response finds no object in
NoJson == [failure |-> "no json"]

\* dicts analyze_context can return (an LLM object is returned as it is)
AnalyzerObjects ==
    { [status |-> "ready"],
      [status |-> "missing_docs", missing_info |-> <<"API docs">>] }

AnalyzerReplies == {Unreachable, NoJson} \cup AnalyzerObjects

\* capability flags generate_plan can return
PlanObjects ==
    { [needs_yellow |-> f[1], needs_multiparty |-> f[2], needs_versioned |-> f[3],
       needs_tip |-> f[4], needs_deposit |-> f[5]] :
        f \in { <<FALSE, FALSE, FALSE, FALSE, FALSE>>, <<FALSE, TRUE, TRUE, FALSE, FALSE>>,
                <<FALSE, FALSE, TRUE, FALSE, FALSE>>,
                <<TRUE, FALSE, FALSE, TRUE, FALSE>>, <<TRUE, FALSE, FALSE, FALSE, TRUE>>,
                <<TRUE, FALSE, FALSE, TRUE, TRUE>> } }

PlanReplies == {Unreachable, NoJson} \cup PlanObjects

\* replies of the code generator's model: search/replace "changes" or legacy "diffs"
CoderObjects ==
    { [changes |-> <<>>, diffs |-> <<>>],
      [changes |-> <<[file |-> "package.json", search |-> "c0", replace |-> "L"],
                     [file |-> "src/new.ts", search |-> None, replace |-> "L"]>>, diffs |-> <<>>],
      [changes |-> <<>>, diffs |-> <<Diff("package.json", "c0", "L"), Diff("package.json", "c0", "L2")>>] }

CoderReplies == {Unreachable, NoJson} \cup CoderObjects

FixPlanObjects ==
    { [diffs |-> <<>>],
      [diffs |-> <<Diff("package.json", "c0", "F")>>] }

FixPlanReplies == {Unreachable, NoJson} \cup FixPlanObjects

\* the escalation drafter's reply: no object, or an object with a "message"
EscalationObjects == { [message |-> <<>>], [message |-> <<"LLM escalation message">>] }

EscalationReplies == {Unreachable, NoJson} \cup EscalationObjects

\* the summarizer's reply content (a text is a sequence of lines; " " is blank)
SummaryContents ==
    { [content |-> <<>>], [content |-> <<" ">>], [content |-> <<" ", "LLM summary", "\n">>] }

SummaryReplies == {Unreachable} \cup SummaryContents

\* what execute_command yields for the build command
\* Without a sandbox root require_root() raises inside execute_command.
\* "wait_timeout": the subprocess closes its output and does not exit within
\* the timeout, process.wait() times out.  "output_open": the subprocess keeps
\* its output open, silent, and does not exit.
BuildOutcomes(e) ==
    IF e.root THEN {"exit0", "exit1", "wait_timeout", "output_open"} ELSE {"exception"}

\* the outcomes on which the readline loop of execute_command ends
OutputCloses(outcome) == outcome # "output_open"

\* what the vector store search returns
\* what the vector store search comes to: a text (the documents, or the
\* message _search_docs_wrapper returns for an exception it caught), or an
\* exception of asyncio.to_thread itself
ThreadFailure == "to_thread raised"
DocsOutcomes == {"Yellow SDK docs", ThreadFailure}

-----------------------------------------------------------------------------
(* agent/graph.py: start_agent_node *)

start_agent_node(s) ==
    [ prompt |-> Get(s, "prompt", ""),
      tree |-> Get(s, "tree", {}),
      repo_path |-> Get(s, "repo_path", ""),
      files_to_read |-> Get(s, "files_to_read", <<>>),
      file_contents |-> Get(s, "file_contents", EmptyFiles),
      diffs |-> Get(s, "diffs", <<>>),
      tool_diffs |-> Get(s, "tool_diffs", <<>>),
      build_output |-> Get(s, "build_output", ""),
      build_success |-> IF Get(s, "build_success", None) = PyTrue THEN PyTrue ELSE None,
      error_count |-> Get(s, "error_count", 0),
      awaiting_approval |-> FALSE,
      approved_files |-> Get(s, "approved_files", <<>>),
      pending_approval_files |-> Get(s, "pending_approval_files", <<>>),
      context_loop_count |-> Get(s, "context_loop_count", 0),
      missing_info |-> Get(s, "missing_info", <<>>),
      docs_retrieved |-> Get(s, "docs_retrieved", FALSE),
      imports_analyzed |-> Get(s, "imports_analyzed", FALSE),
      doc_context |-> Get(s, "doc_context", ""),
      thinking_log |-> Get(s, "thinking_log", <<>>),
      final_summary |-> Get(s, "final_summary", <<>>),
      terminal_output |-> Get(s, "terminal_output", <<>>),
      error_analysis |-> Get(s, "error_analysis", <<>>),
      needs_yellow |-> Get(s, "needs_yellow", FALSE),
      needs_multiparty |-> Get(s, "needs_multiparty", FALSE),
      needs_versioned |-> Get(s, "needs_versioned", FALSE),
      yellow_init_status |-> Get(s, "yellow_init_status", ""),
      yellow_workflow_status |-> Get(s, "yellow_workflow_status", ""),
      yellow_versioned_status |-> Get(s, "yellow_versioned_status", ""),
      yellow_multiparty_status |-> Get(s, "yellow_multiparty_status", "") ]

-----------------------------------------------------------------------------
(* agent/llm/analysis.py and agent/nodes/context.py *)

\* analyze_context raises without an API key and when the LLM call fails
analyze_context_raises(e, reply) == ~e.OPENROUTER_API_KEY \/ reply = Unreachable

analyze_context(reply) ==
    IF reply = NoJson THEN [status |-> "ready", missing_info |-> <<>>] ELSE reply

\* context_check_node that leaves the loop counter where it found it
context_check_node_NoIncrement(s, reply) ==
    LET loop_count == Get(s, "context_loop_count", 0)
        result == analyze_context(reply)
        status == Get(result, "status", "ready")
    IN  [ context_ready |-> (status = "ready"),
          context_loop_count |-> loop_count,
          missing_info |-> Get(result, "missing_info", <<>>),
          files_to_read |-> Get(result, "files_to_read", <<>>),
          docs_retrieved |-> Get(s, "docs_retrieved", FALSE),
          thinking_log |-> Get(s, "thinking_log", <<>>) \o
              <<"Context Status: " \o status \o " (Loop " \o ToString(loop_count) \o ")">> ]

context_check_node(s, reply) ==
    LET loop_count == Get(s, "context_loop_count", 0) + 1
        result == analyze_context(reply)
        status == Get(result, "status", "ready")
    IN  [ context_ready |-> (status = "ready"),
          context_loop_count |-> loop_count,
          missing_info |-> Get(result, "missing_info", <<>>),
          files_to_read |-> Get(result, "files_to_read", <<>>),
          docs_retrieved |-> Get(s, "docs_retrieved", FALSE),
          thinking_log |-> Get(s, "thinking_log", <<>>) \o
              <<"Context Status: " \o status \o " (Loop " \o ToString(loop_count) \o ")">> ]

BootstrapFiles ==
    <<"package.json", "README.md", "requirements.txt", "src/index.ts", "src/main.ts",
      "app/page.tsx", "main.py">>

\* the paths read_code_node decides to fetch
read_code_paths(s) ==
    LET current_files == Get(s, "file_contents", EmptyFiles)
        requested_files == Get(s, "files_to_read", <<>>)
    IN  IF DOMAIN current_files = {} THEN BootstrapFiles
        ELSE IF requested_files # <<>> THEN requested_files
        ELSE SelectSeq(Get(s, "missing_info", <<>>), FileLike)

\* services/sandbox_fs_service.py normalize_and_validate_rel_path on the
\* relative paths of the model: posixpath.normpath drops a leading "./"
normalize_and_validate_rel_path(path) ==
    CASE path = "./package.json" -> "package.json"
      [] path = "./src/a.ts"     -> "src/a.ts"
      [] OTHER                   -> path

\* read_text_file succeeds for a file of the sandbox and raises otherwise
Readable(e, fs, path) == e.root /\ normalize_and_validate_rel_path(path) \in DOMAIN fs

\* The read loop of read_code_node: a path that is a key of new_contents is
\* skipped; the others are passed to read_text_file (calls), and what it
\* returns is stored under the path it returns (read_list).
RECURSIVE read_loop(_, _, _, _)
read_loop(paths, new_contents, e, fs) ==
    IF paths = <<>>
    THEN [new_contents |-> new_contents, calls |-> <<>>, read_list |-> <<>>]
    ELSE LET path == Head(paths)
             norm == normalize_and_validate_rel_path(path)
         IN  IF path \in DOMAIN new_contents
             THEN read_loop(Tail(paths), new_contents, e, fs)
             ELSE IF Readable(e, fs, path)
             THEN LET stored == [k \in DOMAIN new_contents \cup {norm} |->
                                    IF k = norm THEN fs[norm] ELSE new_contents[k]]
                      rest == read_loop(Tail(paths), stored, e, fs)
                  IN  [ new_contents |-> rest.new_contents,
                        calls |-> <<path>> \o rest.calls,
                        read_list |-> <<norm>> \o rest.read_list ]
             ELSE LET rest == read_loop(Tail(paths), new_contents, e, fs)
                  IN  [rest EXCEPT !.calls = <<path>> \o @]

\* read_code_node that returns only what this execution read
read_code_node_OnlyNew(s, e, fs) ==
    LET current_files == Get(s, "file_contents", EmptyFiles)
        loop == read_loop(read_code_paths(s), current_files, e, fs)
    IN  IF read_code_paths(s) = <<>> /\ DOMAIN current_files = {}
        THEN [ thinking_log |-> Get(s, "thinking_log", <<>>) \o <<"No specific files identified to read.">> ]
        ELSE [ file_contents |-> [q \in Range(loop.read_list) |-> loop.new_contents[q]],
               thinking_log |-> Get(s, "thinking_log", <<>>) \o
                    <<IF loop.read_list # <<>> THEN "Read new files" ELSE "No new files found.">> ]

read_code_node(s, e, fs) ==
    LET current_files == Get(s, "file_contents", EmptyFiles)
        loop == read_loop(read_code_paths(s), current_files, e, fs)
    IN  IF read_code_paths(s) = <<>> /\ DOMAIN current_files = {}
        THEN [ thinking_log |-> Get(s, "thinking_log", <<>>) \o <<"No specific files identified to read.">> ]
        ELSE [ file_contents |-> loop.new_contents,
               thinking_log |-> Get(s, "thinking_log", <<>>) \o
                    <<IF loop.read_list # <<>> THEN "Read new files" ELSE "No new files found.">> ]

RelevantFiles == {"package.json", "requirements.txt", "pyproject.toml", "go.mod"}

SourceFiles == {"src/index.ts", "src/main.ts", "app/page.tsx", "main.py", "src/a.ts", "src/new.ts"}

\* analyze_imports calls the LLM only with an API key and a manifest or source
\* file to show it
analyze_imports_calls_llm(s, e) ==
    /\ e.OPENROUTER_API_KEY
    /\ DOMAIN Get(s, "file_contents", EmptyFiles) \cap (RelevantFiles \cup SourceFiles) # {}

analyze_imports_node(s) ==
    [ imports_analyzed |-> TRUE,
      session_memory |-> Get(s, "session_memory", <<>>) \o <<"Import Analysis">>,
      thinking_log |-> Get(s, "thinking_log", <<>>) \o <<"Analyzed imports">> ]

\* _search_docs_wrapper catches its own exceptions and returns a text either way
\* retrieve_docs_node that marks the documents as retrieved only when the
\* search gave documents
retrieve_docs_node_OnSuccessOnly(s, docs) ==
    IF docs = ThreadFailure
    THEN [ docs_retrieved |-> FALSE,
           doc_context |-> "Error retrieving docs: " \o docs,
           thinking_log |-> Get(s, "thinking_log", <<>>) \o <<"Error retrieving docs: " \o docs>> ]
    ELSE [ docs_retrieved |-> TRUE,
           doc_context |-> docs,
           thinking_log |-> Get(s, "thinking_log", <<>>) \o <<"Retrieved documentation">> ]

retrieve_docs_node(s, docs) ==
    IF docs = ThreadFailure
    THEN [ docs_retrieved |-> TRUE,
           doc_context |-> "Error retrieving docs: " \o docs,
           thinking_log |-> Get(s, "thinking_log", <<>>) \o <<"Error retrieving docs: " \o docs>> ]
    ELSE [ docs_retrieved |-> TRUE,
           doc_context |-> docs,
           thinking_log |-> Get(s, "thinking_log", <<>>) \o <<"Retrieved documentation">> ]

research_node(s) ==
    [ thinking_log |-> Get(s, "thinking_log", <<>>) \o <<"Research findings">>,
      session_memory |-> Get(s, "session_memory", <<>>) \o <<"Research">> ]

update_memory_node(s) ==
    [ thinking_log |-> Get(s, "thinking_log", <<>>) \o <<"Memory updated">> ]


-----------------------------------------------------------------------------
(* agent/llm/planning.py and agent/nodes/architecture.py *)

\* generate_plan raises without an API key, when the call fails, and when the
\* reply holds no plan object
generate_plan_raises(e, reply) ==
    ~e.OPENROUTER_API_KEY \/ reply \in {Unreachable, NoJson}

architect_node(s, plan) ==
    LET needs_yellow == Get(plan, "needs_yellow", FALSE)
        needs_simple == Get(plan, "needs_simple_channel", FALSE)
        needs_multiparty == Get(plan, "needs_multiparty", FALSE)
        needs_versioned == Get(plan, "needs_versioned", FALSE)
        needs_tip == Get(plan, "needs_tip", FALSE)
        needs_deposit == Get(plan, "needs_deposit", FALSE)
    IN  Mutate(s,
          [ plan_notes |-> Get(plan, "notes_markdown", ""),
            sdk_version |-> Get(plan, "yellow_sdk_version", "latest"),
            needs_yellow |-> needs_yellow,
            needs_simple_channel |-> needs_simple,
            needs_multiparty |-> needs_multiparty,
            needs_versioned |-> needs_versioned,
            needs_tip |-> needs_tip,
            needs_deposit |-> needs_deposit,
            needs_yellow_tools |-> needs_yellow,
            needs_simple_channel_tools |-> needs_simple,
            needs_multiparty_tools |-> needs_multiparty,
            needs_versioned_tools |-> needs_versioned,
            needs_tip_tools |-> needs_tip,
            needs_deposit_tools |-> needs_deposit,
            thinking_log |-> Get(s, "thinking_log", <<>>) \o
                << "Architecture plan generated",
                   "Yellow requirements: yellow=" \o PyBool(needs_yellow)
                     \o ", simple_channel=" \o PyBool(needs_simple)
                     \o ", multiparty=" \o PyBool(needs_multiparty)
                     \o ", versioned=" \o PyBool(needs_versioned)
                     \o ", tip=" \o PyBool(needs_tip)
                     \o ", deposit=" \o PyBool(needs_deposit) >> ])

\* agent/tools/yellow/diff_utils.py: the proposal for a file, as the list the
\* tools make of it ([diff] if diff else []); unchanged content gives no diff
make_diff(fs, rel_path, new_content) ==
    LET old_content == IF rel_path \in DOMAIN fs THEN fs[rel_path] ELSE ""
    IN  IF old_content = new_content THEN <<>>
        ELSE <<Diff(rel_path, old_content, new_content)>>

\* agent/tools/yellow/diff_utils.py: the file is written whether or not it changed
write_file_with_diff(fs, rel_path, content) ==
    [p \in DOMAIN fs \cup {rel_path} |-> IF p = rel_path THEN content ELSE fs[p]]

\* A scaffolding tool's invoke: with the capability needed, a repo_path and a
\* package.json in the repository it writes its template to disk.  What
\* invoke returns is discarded by the node that calls it.
ToolInvoke(s, fs, needed, rel_path) ==
    IF needed /\ Get(s, "repo_path", "") # "" /\ "package.json" \in DOMAIN fs
    THEN write_file_with_diff(fs, rel_path, "template")
    ELSE fs

yellow_init_node(s) ==
    IF ~Get(s, "needs_yellow", FALSE)
    THEN Mutate(s, [ yellow_init_status |-> "failed",
                     thinking_log |-> Get(s, "thinking_log", <<>>) \o
                        <<"Yellow init failed: no repo_path">> ])
    ELSE s

yellow_init_disk(s, fs) ==
    IF Get(s, "needs_yellow", FALSE) THEN ToolInvoke(s, fs, TRUE, ".env") ELSE fs

yellow_workflow_node(s) ==
    IF Get(s, "repo_path", "./sandbox") = ""
    THEN Mutate(s, [ yellow_workflow_status |-> "failed",
                     thinking_log |-> Get(s, "thinking_log", <<>>) \o
                        <<"Yellow workflow failed: no repo_path">> ])
    ELSE s

yellow_workflow_disk(s, fs) == ToolInvoke(s, fs, TRUE, "scripts/yellow-workflow.ts")

yellow_multiparty_node(s) ==
    IF ~Get(s, "needs_multiparty", FALSE)
    THEN Mutate(s, [ yellow_multiparty_status |-> "skipped",
                     thinking_log |-> Get(s, "thinking_log", <<>>) \o
                        <<"Multiparty: no needs_multiparty">> ])
    ELSE s

yellow_multiparty_disk(s, fs) ==
    ToolInvoke(s, fs, Get(s, "needs_multiparty", FALSE), "scripts/yellow-multiparty.ts")

yellow_versioned_node(s) ==
    IF ~Get(s, "needs_versioned", FALSE)
    THEN Mutate(s, [ yellow_versioned_status |-> "skipped",
                     thinking_log |-> Get(s, "thinking_log", <<>>) \o
                        <<"Versioned integration: no needs_versioned">> ])
    ELSE s

yellow_versioned_disk(s, fs) ==
    ToolInvoke(s, fs, Get(s, "needs_versioned", FALSE), "src/yellow/version.ts")

yellow_tip_node(s) ==
    IF ~Get(s, "needs_tip", FALSE)
    THEN Mutate(s, [ yellow_tip_status |-> "skipped",
                     thinking_log |-> Get(s, "thinking_log", <<>>) \o
                        <<"Yellow tip: no needs_tip">> ])
    ELSE s

yellow_tip_disk(s, fs) ==
    ToolInvoke(s, fs, Get(s, "needs_tip", FALSE), "src/lib/yellow/tip.ts")

yellow_deposit_node(s) ==
    IF ~Get(s, "needs_deposit", FALSE)
    THEN Mutate(s, [ yellow_deposit_status |-> "skipped",
                     thinking_log |-> Get(s, "thinking_log", <<>>) \o
                        <<"Yellow deposit: no needs_deposit">> ])
    ELSE s

yellow_deposit_disk(s, fs) ==
    ToolInvoke(s, fs, Get(s, "needs_deposit", FALSE), "src/lib/yellow/deposit.ts")

-----------------------------------------------------------------------------
(* agent/llm/coding.py: propose_code_changes *)

propose_code_changes_raises(e, reply) ==
    ~e.OPENROUTER_API_KEY \/ reply \in {Unreachable, NoJson}

\* repo files overlaid with the tools' proposed contents
RECURSIVE effective_files(_, _)
effective_files(files, tool_diffs) ==
    IF tool_diffs = <<>> THEN files
    ELSE LET d == Head(tool_diffs)
             path == Get(d, "file", "")
         IN  effective_files(
                IF path # "" /\ "newCode" \in DOMAIN d
                THEN [p \in DOMAIN files \cup {path} |-> IF p = path THEN d.newCode ELSE files[p]]
                ELSE files,
                Tail(tool_diffs))

\* file paths of the changes, in order of first appearance (dict insertion order)
RECURSIVE changed_files(_, _)
changed_files(changes, seen) ==
    IF changes = <<>> THEN <<>>
    ELSE LET f == Get(Head(changes), "file", "")
         IN  IF f = "" \/ f \in seen THEN changed_files(Tail(changes), seen)
             ELSE <<f>> \o changed_files(Tail(changes), seen \cup {f})

\* the hunks of one file applied in order; a content is an atom of the model,
\* so a search block is found in it exactly when it is the whole content
RECURSIVE apply_changes(_, _, _)
apply_changes(changes, file_path, current) ==
    IF changes = <<>> THEN [content |-> current, applied |-> FALSE]
    ELSE LET c == Head(changes)
             hit == Get(c, "file", "") = file_path /\
                    (c.search = None \/ c.search = current)
             after == apply_changes(Tail(changes), file_path,
                                    IF hit THEN c.replace ELSE current)
         IN  [content |-> after.content, applied |-> hit \/ after.applied]

RECURSIVE diffs_of_changes(_, _, _)
diffs_of_changes(paths, changes, files) ==
    IF paths = <<>> THEN <<>>
    ELSE LET f == Head(paths)
             rest == diffs_of_changes(Tail(paths), changes, files)
         IN  IF f \notin DOMAIN files THEN rest
             ELSE LET r == apply_changes(changes, f, files[f])
                  IN  IF r.applied /\ r.content # files[f]
                      THEN <<Diff(f, files[f], r.content)>> \o rest
                      ELSE rest

legacy_diffs(diffs_list, files) ==
    SelectSeq(diffs_list,
              LAMBDA d : d.file # "" /\ d.oldCode # d.newCode /\ d.file \in DOMAIN files)

propose_code_changes(files, tool_diffs, obj) ==
    LET effective == effective_files(files, tool_diffs)
    IN  IF obj.changes # <<>>
        THEN diffs_of_changes(changed_files(obj.changes, {}), obj.changes, effective)
        ELSE IF obj.diffs # <<>> THEN legacy_diffs(obj.diffs, effective)
        ELSE <<>>

write_code(files, tool_diffs, obj) == propose_code_changes(files, tool_diffs, obj)

\* agent/nodes/architecture.py: write_code_node
write_code_node(s, obj) ==
    LET llm_diffs == write_code(Get(s, "file_contents", EmptyFiles), Get(s, "tool_diffs", <<>>), obj)
        diffs == Get(s, "diffs", <<>>) \o llm_diffs
        tool_diffs == Get(s, "tool_diffs", <<>>)
        llm_paths == {Get(d, "file", "") : d \in Range(llm_diffs)}
        merged == SelectSeq(tool_diffs, LAMBDA d : Get(d, "path", None) \notin llm_paths) \o llm_diffs
    IN  Mutate(s, [ diffs |-> merged,
                    thinking_log |-> Get(s, "thinking_log", <<>>) \o
                        <<"Generated " \o ToString(Len(diffs)) \o " file changes">> ])


-----------------------------------------------------------------------------
(* agent/nodes/validation.py *)

\* paths of the diffs that carry one: what await_approval_node asks approval for
diff_files(diffs) ==
    LET named == SelectSeq(diffs, LAMBDA d : Get(d, "file", "") # "")
    IN  [i \in 1..Len(named) |-> named[i].file]

\* await_approval_node that interrupts whatever the number of files
await_approval_interrupts_Always(s) == Len(diff_files(Get(s, "diffs", <<>>))) >= 0

\* interrupt() suspends the node before it returns anything
await_approval_interrupts(s) == diff_files(Get(s, "diffs", <<>>)) # <<>>

\* the branch of await_approval_node that returns: nothing to approve
await_approval_node(s) ==
    [ awaiting_approval |-> FALSE,
      approved_files |-> <<>>,
      pending_approval_files |-> <<>>,
      thinking_log |->
        IF Get(s, "needs_yellow", FALSE)
        THEN Get(s, "thinking_log", <<>>) \o
                << "No files to approve, proceeding...",
                   "Yellow tool workflow preferred; skipping generic codegen approvals." >>
        ELSE Get(s, "thinking_log", <<>>) \o <<"No files to approve, proceeding...">> ]

coding_node(s) ==
    Mutate(s, [ awaiting_approval |-> FALSE,
                thinking_log |-> Get(s, "thinking_log", <<>>) \o <<"Verifying code...">> ])

build_command(s) ==
    LET files == Get(s, "file_contents", EmptyFiles)
    IN  IF "package.json" \in DOMAIN files THEN "npm install && npm run build"
        ELSE IF "requirements.txt" \in DOMAIN files
             THEN "pip install -r requirements.txt && python main.py --dry-run"
        ELSE "echo 'No build command detected'"

\* lines execute_command streams for the command, and whether it exited with 0
build_lines(outcome) ==
    CASE outcome = "exit0" -> <<"compiled\n">>
      [] outcome = "exit1" -> <<"error TS1005\n">>
      [] outcome = "wait_timeout" -> <<"Error: Command timed out after 300 seconds">>
      [] OTHER             -> <<"Execution failed: sandbox root is not set">>

RECURSIVE Join(_)
Join(lines) == IF lines = <<>> THEN "" ELSE Head(lines) \o Join(Tail(lines))

FakeOutputLines == <<"project_8cbda354 % npm i", "", "  VITE v5.4.21  ready in 139 ms">>

RECURSIVE JoinLines(_)
JoinLines(lines) ==
    IF lines = <<>> THEN ""
    ELSE IF Len(lines) = 1 THEN Head(lines)
    ELSE Head(lines) \o "\n" \o JoinLines(Tail(lines))

build_node(s, outcome) ==
    LET success == (outcome = "exit0")
        output_lines == build_lines(outcome)
        previous == Get(s, "consecutive_build_failures", 0)
        consecutive_failures == IF success THEN 0 ELSE previous + 1
    IN  IF consecutive_failures >= FallbackAfterFailures
        THEN Mutate(s, [ build_success |-> PyTrue,
                         build_output |-> JoinLines(FakeOutputLines),
                         build_command |-> build_command(s),
                         consecutive_build_failures |-> consecutive_failures,
                         terminal_output |-> FakeOutputLines,
                         thinking_log |-> Get(s, "thinking_log", <<>>) \o
                            <<"Build finished: Success (fallback mode after 2 consecutive failures)">> ])
        ELSE Mutate(s, [ build_success |-> PyBool(success),
                         build_output |-> Join(output_lines),
                         build_command |-> build_command(s),
                         consecutive_build_failures |-> consecutive_failures,
                         terminal_output |-> output_lines,
                         thinking_log |-> Get(s, "thinking_log", <<>>) \o
                            <<"Build finished: " \o (IF success THEN "Success" ELSE "Failed")>> ])

-----------------------------------------------------------------------------
(* agent/nodes/maintenance.py, agent/llm/analysis.py, agent/llm/error_handling.py *)

DefaultErrorAnalysis == [error_type |-> "unknown", fix_suggestion |-> "Check logs"]

ErrorAnalysisReplies == {Unreachable, NoJson}

\* the LLM helpers that answer with a default when OPENROUTER_API_KEY is unset
\* (analyze_errors, analyze_imports, conduct_research) raise only when they call
llm_helper_raises(e, reply) == e.OPENROUTER_API_KEY /\ reply = Unreachable

analyze_errors(e, reply) == DefaultErrorAnalysis

error_analysis_node(s, analysis) ==
    [ error_analysis |-> analysis,
      thinking_log |-> Get(s, "thinking_log", <<>>) \o <<"Analyzed build errors">> ]

memory_check_node(s) ==
    LET count == Get(s, "error_count", 0) + 1
    IN  [ error_count |-> count,
          thinking_log |-> Get(s, "thinking_log", <<>>) \o
                <<"Error retry attempt " \o ToString(count)>> ]

generate_fix_plan_raises(e, reply) == e.GOOGLE_API_KEY /\ reply = Unreachable

generate_fix_plan(e, reply) ==
    IF ~e.GOOGLE_API_KEY \/ reply = NoJson THEN <<>>
    ELSE SelectSeq(reply.diffs, LAMBDA d : {"file", "oldCode", "newCode"} \subseteq DOMAIN d)

fix_plan_node(s, diffs) ==
    [ diffs |-> diffs,
      error_analysis |-> Get(s, "error_analysis", <<>>),
      thinking_log |-> Get(s, "thinking_log", <<>>) \o
            <<"Generated fix plan with " \o ToString(Len(diffs)) \o " file changes">> ]

EscalationFallback == <<"Issue escalated to human review due to persistent errors.">>

escalate_issue_raises(e, reply) == e.GOOGLE_API_KEY /\ reply = Unreachable

escalate_issue(e, reply) ==
    IF ~e.GOOGLE_API_KEY \/ reply = NoJson THEN EscalationFallback
    ELSE IF "message" \in DOMAIN reply THEN reply.message
    ELSE EscalationFallback

escalation_node(s, msg) ==
    [ escalation_needed |-> TRUE,
      final_summary |-> msg,
      thinking_log |-> Get(s, "thinking_log", <<>>) \o <<"Escalated to human review">> ]

-----------------------------------------------------------------------------
(* agent/llm/summary.py and agent/nodes/summary.py.  A text is a sequence  *)
(* of pieces; the empty text is <<>>.                                      *)

Whitespace == {" ", "\n"}

\* str.strip()
RECURSIVE Strip(_)
Strip(text) ==
    IF text = <<>> THEN <<>>
    ELSE IF Head(text) \in Whitespace THEN Strip(Tail(text))
    ELSE IF text[Len(text)] \in Whitespace THEN Strip(SubSeq(text, 1, Len(text) - 1))
    ELSE text

template_summary(diffs, build_success, error_count) ==
    << "# Integration Summary",
       "**Status:** " \o (IF build_success = PyTrue THEN "Success" ELSE "Failed"),
       "**Files Changed:** " \o ToString(Len(diffs)),
       "**Errors Encountered:** " \o ToString(error_count),
       "## Changes Applied" >>
    \o [i \in 1..Len(diffs) |-> "- Modified " \o Get(diffs[i], "file", "unknown")]
    \o << "## Next Steps",
          IF build_success = PyTrue THEN "- Verify the application functionality"
          ELSE "- Review build errors" >>

generate_summary_raises(e, reply) == e.GOOGLE_API_KEY /\ reply = Unreachable

generate_summary(e, reply, diffs, build_success, error_count) ==
    IF ~e.GOOGLE_API_KEY THEN template_summary(diffs, build_success, error_count)
    ELSE IF reply.content # <<>> THEN Strip(reply.content)
    ELSE template_summary(diffs, build_success, error_count)

\* summary_node that keeps a final_summary already set
summary_node_KeepsExisting(s, summary) ==
    [ final_summary |-> IF Get(s, "final_summary", <<>>) # <<>> THEN s.final_summary ELSE summary,
      thinking_log |-> Get(s, "thinking_log", <<>>) \o <<"Summary generated">> ]

summary_node(s, summary) ==
    [ final_summary |-> summary,
      thinking_log |-> Get(s, "thinking_log", <<>>) \o <<"Summary generated">> ]

-----------------------------------------------------------------------------
(* services/pending_diff_service.py.  The store is the pair of module      *)
(* globals [by_run |-> _PENDING_BY_RUN, last |-> _LAST_RUN_ID].            *)

NoRuns == [r \in {} |-> EmptyFiles]

_resolve_run_id(store, runId) == IF runId # None THEN runId ELSE store.last

PerRun(store, rid) == IF rid \in DOMAIN store.by_run THEN store.by_run[rid] ELSE EmptyFiles

\* set_pending_diff that keeps the diff already pending for the file
set_pending_diff_KeepsFirst(store, runId, file, oldCode, newCode) ==
    LET per_run == PerRun(store, runId)
        updated == [f \in DOMAIN per_run \cup {file} |->
                        IF f \in DOMAIN per_run THEN per_run[f]
                        ELSE Diff(file, oldCode, newCode)]
    IN  [ by_run |-> [r \in DOMAIN store.by_run \cup {runId} |->
                        IF r = runId THEN updated ELSE store.by_run[r]],
          last |-> runId ]

set_pending_diff(store, runId, file, oldCode, newCode) ==
    LET per_run == PerRun(store, runId)
        updated == [f \in DOMAIN per_run \cup {file} |->
                        IF f = file THEN Diff(file, oldCode, newCode) ELSE per_run[f]]
    IN  [ by_run |-> [r \in DOMAIN store.by_run \cup {runId} |->
                        IF r = runId THEN updated ELSE store.by_run[r]],
          last |-> runId ]

\* each operation yields the store it leaves and the value it returns
get_pending_diff(store, file, runId) ==
    LET rid == _resolve_run_id(store, runId)
    IN  [ store |-> store,
          result |-> IF rid = None THEN None
                     ELSE IF file \in DOMAIN PerRun(store, rid) THEN PerRun(store, rid)[file].newCode
                     ELSE None ]

pop_pending_diff(store, file, runId) ==
    LET rid == _resolve_run_id(store, runId)
        per_run == PerRun(store, rid)
    IN  IF rid = None \/ DOMAIN per_run = {} \/ file \notin DOMAIN per_run
        THEN [store |-> store, result |-> None]
        ELSE [ store |-> [store EXCEPT !.by_run[rid] =
                                [f \in DOMAIN per_run \ {file} |-> per_run[f]]],
               result |-> per_run[file].newCode ]

list_pending_diffs(store, runId) ==
    LET rid == _resolve_run_id(store, runId)
    IN  [ store |-> store,
          result |-> IF rid = None THEN {} ELSE DOMAIN PerRun(store, rid) ]

clear_pending_diffs(store, runId) ==
    LET rid == _resolve_run_id(store, runId)
    IN  [ store |-> IF rid # None
                    THEN [store EXCEPT !.by_run =
                            [r \in DOMAIN store.by_run \ {rid} |-> store.by_run[r]]]
                    ELSE [store EXCEPT !.by_run = NoRuns],
          result |-> None ]

\* run_agent stores every diff of a chunk that carries diffs
RECURSIVE store_chunk_diffs(_, _, _)
store_chunk_diffs(store, runId, diffs) ==
    IF diffs = <<>> THEN store
    ELSE LET d == Head(diffs)
         IN  store_chunk_diffs(
                IF "file" \in DOMAIN d
                THEN set_pending_diff(store, runId, d.file, Get(d, "oldCode", ""), Get(d, "newCode", ""))
                ELSE store,
                runId, Tail(diffs))


-----------------------------------------------------------------------------
(* routes.py: applying the pending diffs of a run (yellow_agent_resume and *)
(* apply_all) through services/sandbox_fs_service.write_text_file          *)

\* the paths write_text_file raises for: empty, directory-like, absolute,
\* or leaving the root
write_rejects(path) ==
    LET p == Spell(path)
    IN  \/ p = <<>>
        \/ p[Len(p)] = "/"
        \/ Head(p) = "/"
        \/ p = <<".", ".">>
        \/ IsPrefix(<<".", ".", "/">>, p)

write_text_file(fs, path, content) ==
    IF write_rejects(path) THEN [fs |-> fs, raised |-> TRUE]
    ELSE LET norm == normalize_and_validate_rel_path(path)
         IN  [ fs |-> [k \in DOMAIN fs \cup {norm} |-> IF k = norm THEN content ELSE fs[k]],
               raised |-> FALSE ]

\* for d in diffs: a raise of write_text_file leaves the loop and the handler
RECURSIVE write_pending(_, _, _)
write_pending(fs, per_run, order) ==
    IF order = <<>> THEN [fs |-> fs, raised |-> FALSE, approved_files |-> <<>>]
    ELSE LET d == per_run[Head(order)]
             written == write_text_file(fs, d.file, d.newCode)
         IN  IF written.raised
             THEN [fs |-> fs, raised |-> TRUE, approved_files |-> <<>>]
             ELSE LET rest == write_pending(written.fs, per_run, Tail(order))
                  IN  [rest EXCEPT !.approved_files = <<d.file>> \o @]

\* the orders list_pending_diffs can return the files of a run in
Orders(files) ==
    {order \in [1..Cardinality(files) -> files] : Range(order) = files}

\* a handler that writes the pending diffs whatever the decision
apply_pending_WritesAlways(store, fs, runId, approved, order) ==
    LET out == write_pending(fs, PerRun(store, _resolve_run_id(store, runId)), order)
    IN  [ store |-> IF out.raised THEN store ELSE clear_pending_diffs(store, runId).store,
          fs |-> out.fs, raised |-> out.raised,
          approved_files |-> IF approved THEN out.approved_files ELSE <<>> ]

\* the handler up to the resume: with approved, list, write each, clear;
\* without, clear
apply_pending(store, fs, runId, approved, order) ==
    IF ~approved
    THEN [ store |-> clear_pending_diffs(store, runId).store, fs |-> fs,
           raised |-> FALSE, approved_files |-> <<>> ]
    ELSE LET out == write_pending(fs, PerRun(store, _resolve_run_id(store, runId)), order)
         IN  [ store |-> IF out.raised THEN store ELSE clear_pending_diffs(store, runId).store,
               fs |-> out.fs, raised |-> out.raised, approved_files |-> out.approved_files ]

\* routes.approve_diff: the diff is popped first; 404 when there is none; an
\* approved diff is then written, and a raise of write_text_file (no root,
\* or a path the filesystem layer rejects) leaves the handler
approve_diff(store, fs, root, file, runId, approved) ==
    LET popped == pop_pending_diff(store, file, runId)
    IN  IF popped.result = None
        THEN [store |-> popped.store, fs |-> fs, status |-> "not_found"]
        ELSE IF approved
        THEN LET written == IF root THEN write_text_file(fs, file, popped.result)
                            ELSE [fs |-> fs, raised |-> TRUE]
             IN  [ store |-> popped.store, fs |-> written.fs,
                   status |-> IF written.raised THEN "raised" ELSE "applied" ]
        ELSE [store |-> popped.store, fs |-> fs, status |-> "rejected"]

-----------------------------------------------------------------------------
(* agent/runner.py: the event streams of run_agent and resume_agent.  A     *)
(* stream is the sequence of events yielded so far together with the two   *)
(* locals sent_file_contents and last_tree_hash.  A tree is the set of its *)
(* entries, {} being the empty dict; a hash is <<tree>>, None is <<>>.      *)

READ_ONLY_NODES ==
    {"start_agent", "context_check", "read_code", "analyze_imports", "retrieve_docs",
     "research", "update_memory", "architect", "plan_review_and_doc_checklist",
     "retrieve_targeted_docs", "plan_correction", "yellow_init", "yellow_workflow",
     "yellow_versioned", "yellow_multiparty", "yellow_tip", "yellow_deposit"}

\* services/sandbox_fs_service.get_file_tree: the root folder and what is under it
get_file_tree(fs) == {"."} \cup DOMAIN fs

\* hashlib.md5(json.dumps(tree, sort_keys=True)): equal for equal trees only
tree_hash(tree) == <<tree>>

NoStream == [events |-> <<>>, sent_file_contents |-> EmptyFiles, last_tree_hash |-> <<>>]

\* the items of a dict in some order
RECURSIVE Items(_)
Items(S) == IF S = {} THEN <<>> ELSE LET x == CHOOSE x \in S : TRUE IN <<x>> \o Items(S \ {x})

\* stages whose start is announced with a thought
ThoughtStages(inRun) ==
    IF inRun
    THEN {"context_check", "read_code", "analyze_imports", "retrieve_docs", "research",
          "architect", "yellow_init", "yellow_workflow", "yellow_multiparty",
          "yellow_versioned", "yellow_tip", "yellow_deposit", "write_code", "coding",
          "build", "error_analysis", "fix_plan", "summary"}
    ELSE {"coding", "build", "error_analysis", "fix_plan", "summary"}

\* on_chain_start of a stage
on_chain_start(name, inRun) ==
    <<[type |-> "tool_start", name |-> name]>>
    \o (IF name \in ThoughtStages(inRun) THEN <<[type |-> "thought", content |-> name]>> ELSE <<>>)

\* a handler that emits every tree it is given
file_tree_events_Always(st, chunk) ==
    IF "tree" \in DOMAIN chunk
    THEN <<[type |-> "file_tree", tree |-> chunk.tree]>>
    ELSE <<>>

\* the file_tree event of a chunk
file_tree_events(st, chunk) ==
    IF "tree" \in DOMAIN chunk /\ tree_hash(chunk.tree) # st.last_tree_hash
    THEN <<[type |-> "file_tree", tree |-> chunk.tree]>>
    ELSE <<>>

\* a handler without the read-only suppression
file_content_paths_Unsuppressed(st, name, chunk, inRun) ==
    IF "file_contents" \notin DOMAIN chunk THEN {}
    ELSE { p \in DOMAIN chunk.file_contents :
              \/ p \notin DOMAIN st.sent_file_contents
              \/ st.sent_file_contents[p] # chunk.file_contents[p] }

\* the paths a chunk's file_content events are emitted for; resume_agent has
\* no read-only test
file_content_paths(st, name, chunk, inRun) ==
    IF "file_contents" \notin DOMAIN chunk \/ (inRun /\ name \in READ_ONLY_NODES) THEN {}
    ELSE { p \in DOMAIN chunk.file_contents :
              \/ p \notin DOMAIN st.sent_file_contents
              \/ st.sent_file_contents[p] # chunk.file_contents[p] }

\* sent_file_contents after the chunk: a read-only stage records every path,
\* another stage the paths it emitted
record_sent(st, name, chunk, inRun) ==
    IF "file_contents" \notin DOMAIN chunk THEN st.sent_file_contents
    ELSE LET recorded == IF inRun /\ name \in READ_ONLY_NODES
                         THEN DOMAIN chunk.file_contents
                         ELSE file_content_paths(st, name, chunk, inRun)
         IN  [p \in DOMAIN st.sent_file_contents \cup recorded |->
                 IF p \in recorded THEN chunk.file_contents[p] ELSE st.sent_file_contents[p]]

\* proposed_file and diff for every diff of the chunk that names a file
RECURSIVE diff_events(_)
diff_events(diffs) ==
    IF diffs = <<>> THEN <<>>
    ELSE LET d == Head(diffs)
         IN  (IF "file" \in DOMAIN d
              THEN << [type |-> "proposed_file", path |-> d.file, content |-> Get(d, "newCode", "")],
                      [type |-> "diff", file |-> d.file, newCode |-> Get(d, "newCode", "")] >>
              ELSE <<>>) \o diff_events(Tail(diffs))

\* on_chain_stream of a stage: the events of the chunk it returned (a
\* terminal event is kept without its line)
on_chain_stream(st, name, chunk, inRun) ==
    LET paths == Items(file_content_paths(st, name, chunk, inRun))
        lines == Get(chunk, "terminal_output", <<>>)
    IN  [ events |-> st.events
            \o file_tree_events(st, chunk)
            \o [i \in 1..Len(paths) |->
                   [type |-> "file_content", path |-> paths[i],
                    content |-> chunk.file_contents[paths[i]]]]
            \o (IF inRun THEN diff_events(Get(chunk, "diffs", <<>>)) ELSE <<>>)
            \o (IF inRun /\ "pending_approval_files" \in DOMAIN chunk
                         /\ Get(chunk, "awaiting_approval", FALSE)
                THEN <<[type |-> "awaiting_user_review", files |-> chunk.pending_approval_files]>>
                ELSE <<>>)
            \o [i \in 1..Len(lines) |-> [type |-> "terminal"]]
            \o (IF Get(chunk, "build_success", None) # None
                THEN <<[type |-> "build",
                        status |-> IF chunk.build_success = PyTrue THEN "success" ELSE "error"]>>
                ELSE <<>>)
            \o (IF Get(chunk, "final_summary", <<>>) # <<>>
                THEN <<[type |-> "thought", content |-> "final_summary"]>>
                ELSE <<>>),
          sent_file_contents |-> record_sent(st, name, chunk, inRun),
          last_tree_hash |-> IF "tree" \in DOMAIN chunk THEN tree_hash(chunk.tree)
                             ELSE st.last_tree_hash ]

\* a stage that ran to its end: on_chain_start, on_chain_stream, on_chain_end
stage_events(st, name, chunk, inRun) ==
    LET begun == [st EXCEPT !.events = @ \o on_chain_start(name, inRun)]
        streamed == on_chain_stream(begun, name, chunk, inRun)
    IN  [streamed EXCEPT !.events = @ \o <<[type |-> "tool_end", name |-> name]>>]

Emit(st, evs) == [st EXCEPT !.events = @ \o evs]

\* run_agent up to the first stage: run_started, a thought, and the initial
\* file tree when get_file_tree does not raise
run_agent_opening(e, fs) ==
    Emit(NoStream,
         << [type |-> "run_started"], [type |-> "thought", content |-> "Starting"] >>
         \o (IF e.root THEN <<[type |-> "file_tree", tree |-> get_file_tree(fs)]>> ELSE <<>>))

\* The engine ends the root chain normally when the graph reaches END and
\* also when a stage suspends it (the interrupt is kept inside the engine),
\* so on_chain_end of "LangGraph" reaches run_agent in both cases.
graph_completed(outcome) == outcome \in {"END", "interrupted"}

\* run_agent once the engine's stream is over (the except branch, the
\* interrupt check and the final yield)
run_agent_closing(st, outcome, snapshot) ==
    IF outcome = "raised"
    THEN Emit(st, << [type |-> "thought", content |-> "Error during agent execution"],
                     [type |-> "run_finished"] >>)
    ELSE IF /\ ~graph_completed(outcome)
            /\ snapshot.next = "await_approval"
            /\ diff_files(Get(snapshot.values, "diffs", <<>>)) # <<>>
         THEN Emit(st, << [type |-> "awaiting_user_review",
                           files |-> diff_files(Get(snapshot.values, "diffs", <<>>))],
                          [type |-> "thought", content |-> "Waiting for user approval..."],
                          [type |-> "run_finished", interrupted |-> TRUE] >>)
         ELSE Emit(st, <<[type |-> "run_finished"]>>)

\* resume_agent up to the engine's stream
resume_agent_opening ==
    Emit(NoStream, <<[type |-> "thought", content |-> "Resuming after user approval..."]>>)

\* resume_agent once the engine's stream is over (except and finally)
resume_agent_closing(st, outcome) ==
    Emit(st, (IF outcome = "raised"
              THEN <<[type |-> "thought", content |-> "Error during resume"]>>
              ELSE <<>>)
             \o <<[type |-> "run_finished"]>>)

\* the stream when the engine's stream stopped with the given outcome
closing(st, outcome, snapshot, inRun) ==
    IF inRun THEN run_agent_closing(st, outcome, snapshot) ELSE resume_agent_closing(st, outcome)

-----------------------------------------------------------------------------
(* The graph engine (langgraph StateGraph compiled with a checkpointer) and *)
(* the streams of agent/runner.py                                           *)

Store == [by_run |-> PENDING_BY_RUN, last |-> LAST_RUN_ID]

Streaming == pc \notin {"idle", "interrupted", "raised", "END"}

\* One superstep: the node's update is written, the conditional edge is
\* evaluated on the written state, the checkpoint is saved, and run_agent
\* stores the diffs of the streamed chunk.
Commit(node, returned, target) ==
  \E update \in {returned}, next \in {target} :
    /\ state' = ApplyWrites(state, update)
    /\ pc' = next
    /\ checkpoint' = [values |-> state', next |-> next]
    /\ executed' = executed \cup {node}
    /\ last' = node
    /\ LET stored == IF phase = "run" /\ "diffs" \in DOMAIN update
                     THEN store_chunk_diffs(Store, RunId, update.diffs)
                     ELSE Store
       IN  /\ PENDING_BY_RUN' = stored.by_run
           /\ LAST_RUN_ID' = stored.last
    /\ LET streamed == stage_events(stream, node, update, phase = "run")
       IN  stream' = IF next = "END"
                     THEN closing(streamed, "END", checkpoint', phase = "run")
                     ELSE streamed
    /\ UNCHANGED <<env, phase, resumeArgs, resumeFrom, started, nResumes, nRestarts,
                   suspended, call, ret>>

\* The node raises: the stream's except branch ends the stream; the
\* checkpoint keeps the state saved before the node started.
Raise(node) ==
    /\ pc' = "raised"
    /\ executed' = executed \cup {node}
    /\ stream' = closing(Emit(stream, on_chain_start(node, phase = "run")),
                         "raised", checkpoint, phase = "run")
    /\ UNCHANGED <<env, sandbox, state, checkpoint, phase, last, resumeArgs, resumeFrom,
                   started, nResumes, nRestarts, suspended, failedBuilds,
                   PENDING_BY_RUN, LAST_RUN_ID, call, ret>>

Prompts == {"integrate yellow"}

\* runner.run_agent: a fresh thread (routes.py draws a new uuid per run)
RunAgent ==
    /\ ~started
    /\ ~Streaming
    /\ \E prompt \in Prompts :
        state' = ApplyWrites(<<>>,
                    IF env.root
                    THEN [ prompt |-> prompt, tree |-> get_file_tree(sandbox),
                           repo_path |-> SandboxRoot ]
                    ELSE [ prompt |-> prompt, repo_path |-> "" ])
    /\ stream' = run_agent_opening(env, sandbox)
    /\ pc' = "resume_router"
    /\ checkpoint' = [values |-> state', next |-> "resume_router"]
    /\ phase' = "run"
    /\ started' = TRUE
    /\ executed' = {}
    /\ last' = "none"
    /\ UNCHANGED <<env, sandbox, resumeArgs, resumeFrom, nResumes, nRestarts, suspended,
                   failedBuilds, PENDING_BY_RUN, LAST_RUN_ID, call, ret>>

\* a resume that starts the log afresh
resume_overrides_FreshLog(args) ==
    [ resume_from_approval |-> TRUE,
      approved |-> args.approved,
      approved_files |-> args.approved_files,
      awaiting_approval |-> FALSE,
      pending_approval_files |-> <<>>,
      thinking_log |-> <<>> ]

\* the values resume_agent merges into the snapshot
resume_overrides(args) ==
    [ resume_from_approval |-> TRUE,
      approved |-> args.approved,
      approved_files |-> args.approved_files,
      awaiting_approval |-> FALSE,
      pending_approval_files |-> <<>> ]

\* runner.resume_agent
ResumeAgent(args) ==
    /\  /\ resumeArgs' = args
        /\ IF checkpoint = NoCheckpoint
           THEN \* Command(resume=...) on a thread without checkpoint: no stage
                \* runs; the engine's stream ends at once, empty or with an error
                /\ \E outcome \in {"END", "raised"} :
                      /\ pc' = outcome
                      /\ stream' = resume_agent_closing(resume_agent_opening, outcome)
                /\ state' = <<>>
                /\ checkpoint' = checkpoint
           ELSE /\ state' = ApplyWrites(checkpoint.values, resume_overrides(args))
                /\ pc' = "resume_router"
                /\ checkpoint' = [values |-> state', next |-> "resume_router"]
                /\ stream' = resume_agent_opening
    /\ resumeFrom' = checkpoint.next
    /\ phase' = "resume"
    /\ nResumes' = nResumes + 1
    /\ suspended' = FALSE
    /\ executed' = {}
    /\ last' = "none"
    /\ UNCHANGED <<env, started, nRestarts, failedBuilds, ret>>

\* routes.yellow_agent_resume, called by a client when its situation holds:
\* require_root, the pending diffs applied or discarded, then resume_agent
\* with the files that were written.  The handler itself looks at no status
\* of the run.
YellowAgentResumeWhen(situation) ==
    /\ ~Streaming
    /\ situation
    /\ nResumes < MaxResumes
    /\ \E approved \in BOOLEAN, order \in Orders(list_pending_diffs(Store, RunId).result) :
        LET applied == apply_pending(Store, sandbox, RunId, approved, order)
        IN  /\ call' = [op |-> "yellow_agent_resume", runId |-> RunId, file |-> None,
                        approved |-> approved]
            /\ IF ~env.root \/ applied.raised
               THEN \* the handler is left by an HTTPException before resume_agent
                    /\ nResumes' = nResumes + 1
                    /\ sandbox' = IF env.root THEN applied.fs ELSE sandbox
                    /\ UNCHANGED <<env, state, pc, checkpoint, phase, executed, last,
                                   resumeArgs, resumeFrom, started, nRestarts, suspended,
                                   failedBuilds, PENDING_BY_RUN, LAST_RUN_ID, ret, stream>>
               ELSE /\ sandbox' = applied.fs
                    /\ PENDING_BY_RUN' = applied.store.by_run
                    /\ LAST_RUN_ID' = applied.store.last
                    /\ ResumeAgent([approved |-> approved,
                                    approved_files |-> applied.approved_files])

\* the call for a run the client saw suspend or for a run id that was never
\* started
YellowAgentResume == YellowAgentResumeWhen(suspended \/ ~started)

\* the call for a run that has reached its end
ResumeAgain == YellowAgentResumeWhen(started /\ ~suspended /\ pc = "END")

\* The server process stops and a new one starts: InMemorySaver, the
\* pending-diff globals and the locals of a stream are process memory.
\* (Before the first run the new process is in the initial state again.)
Restart ==
    /\ ~Streaming
    /\ started
    /\ nRestarts < MaxRestarts
    /\ nRestarts' = nRestarts + 1
    /\ checkpoint' = NoCheckpoint
    /\ PENDING_BY_RUN' = NoRuns
    /\ LAST_RUN_ID' = None
    /\ state' = <<>>
    /\ pc' = "idle"
    /\ stream' = NoStream
    /\ UNCHANGED <<env, sandbox, phase, executed, last, resumeArgs, resumeFrom, started,
                   nResumes, suspended, failedBuilds, call, ret>>

ResumeRouter ==
    /\ pc = "resume_router"
    /\ Commit("resume_router", state, route_resume(state))
    /\ UNCHANGED <<sandbox, failedBuilds>>

StartAgent ==
    /\ pc = "start_agent"
    /\ Commit("start_agent", start_agent_node(state), "context_check")
    /\ UNCHANGED <<sandbox, failedBuilds>>

ContextTargets ==
    [ read_code |-> "read_code", retrieve_docs |-> "retrieve_docs",
      research |-> "research", ready |-> "architect" ]

ContextCheck ==
    /\ pc = "context_check"
    /\ \E reply \in AnalyzerReplies :
        IF analyze_context_raises(env, reply)
        THEN Raise("context_check")
        ELSE LET update == context_check_node(state, reply)
             IN  /\ Commit("context_check", update,
                           ContextTargets[route_context_decision(ApplyWrites(state, update))])
                 /\ UNCHANGED <<sandbox, failedBuilds>>

ReadCode ==
    /\ pc = "read_code"
    /\ Commit("read_code", read_code_node(state, env, sandbox), "analyze_imports")
    /\ UNCHANGED <<sandbox, failedBuilds>>

HelperReplies == {Unreachable, NoJson}

AnalyzeImports ==
    /\ pc = "analyze_imports"
    /\ \E reply \in HelperReplies :
        IF analyze_imports_calls_llm(state, env) /\ reply = Unreachable
        THEN Raise("analyze_imports")
        ELSE /\ Commit("analyze_imports", analyze_imports_node(state), "update_memory")
             /\ UNCHANGED <<sandbox, failedBuilds>>

RetrieveDocs ==
    /\ pc = "retrieve_docs"
    /\ \E docs \in DocsOutcomes :
        Commit("retrieve_docs", retrieve_docs_node(state, docs), "update_memory")
    /\ UNCHANGED <<sandbox, failedBuilds>>

Research ==
    /\ pc = "research"
    /\ \E reply \in HelperReplies :
        IF llm_helper_raises(env, reply)
        THEN Raise("research")
        ELSE /\ Commit("research", research_node(state), "update_memory")
             /\ UNCHANGED <<sandbox, failedBuilds>>

UpdateMemory ==
    /\ pc = "update_memory"
    /\ Commit("update_memory", update_memory_node(state), "context_check")
    /\ UNCHANGED <<sandbox, failedBuilds>>


Architect ==
    /\ pc = "architect"
    /\ \E reply \in PlanReplies :
        IF generate_plan_raises(env, reply)
        THEN Raise("architect")
        ELSE /\ Commit("architect", architect_node(state, reply), "yellow_init")
             /\ UNCHANGED <<sandbox, failedBuilds>>

YellowInit ==
    /\ pc = "yellow_init"
    /\ LET update == yellow_init_node(state)
       IN  Commit("yellow_init", update, route_after_init(ApplyWrites(state, update)))
    /\ sandbox' = yellow_init_disk(state, sandbox)
    /\ UNCHANGED failedBuilds

YellowWorkflow ==
    /\ pc = "yellow_workflow"
    /\ LET update == yellow_workflow_node(state)
       IN  Commit("yellow_workflow", update, route_after_workflow(ApplyWrites(state, update)))
    /\ sandbox' = yellow_workflow_disk(state, sandbox)
    /\ UNCHANGED failedBuilds

YellowVersioned ==
    /\ pc = "yellow_versioned"
    /\ LET update == yellow_versioned_node(state)
       IN  Commit("yellow_versioned", update, route_after_yellow(ApplyWrites(state, update)))
    /\ sandbox' = yellow_versioned_disk(state, sandbox)
    /\ UNCHANGED failedBuilds

YellowMultiparty ==
    /\ pc = "yellow_multiparty"
    /\ Commit("yellow_multiparty", yellow_multiparty_node(state), "write_code")
    /\ sandbox' = yellow_multiparty_disk(state, sandbox)
    /\ UNCHANGED failedBuilds

YellowTip ==
    /\ pc = "yellow_tip"
    /\ Commit("yellow_tip", yellow_tip_node(state), "write_code")
    /\ sandbox' = yellow_tip_disk(state, sandbox)
    /\ UNCHANGED failedBuilds

YellowDeposit ==
    /\ pc = "yellow_deposit"
    /\ Commit("yellow_deposit", yellow_deposit_node(state), "write_code")
    /\ sandbox' = yellow_deposit_disk(state, sandbox)
    /\ UNCHANGED failedBuilds

WriteCode ==
    /\ pc = "write_code"
    /\ \E reply \in CoderReplies :
        IF propose_code_changes_raises(env, reply)
        THEN Raise("write_code")
        ELSE /\ Commit("write_code", write_code_node(state, reply), "await_approval")
             /\ UNCHANGED <<sandbox, failedBuilds>>

\* await_approval_node: interrupt() ends the stream with the checkpoint left
\* as it was saved after write_code; without files the node returns
AwaitApproval ==
    /\ pc = "await_approval"
    /\ IF await_approval_interrupts(state)
       THEN /\ pc' = "interrupted"
            /\ suspended' = TRUE
            /\ executed' = executed \cup {"await_approval"}
            /\ stream' = closing(Emit(stream, on_chain_start("await_approval", phase = "run")),
                                 "interrupted", checkpoint, phase = "run")
            /\ UNCHANGED <<env, sandbox, state, checkpoint, phase, last, resumeArgs,
                           resumeFrom, started, nResumes, nRestarts, failedBuilds,
                           PENDING_BY_RUN, LAST_RUN_ID, call, ret>>
       ELSE /\ Commit("await_approval", await_approval_node(state), "coding")
            /\ UNCHANGED <<sandbox, failedBuilds>>

Coding ==
    /\ pc = "coding"
    /\ Commit("coding", coding_node(state), "build")
    /\ UNCHANGED <<sandbox, failedBuilds>>

BuildTargets == [success |-> "summary", failure |-> "error_analysis"]

\* On an output that never closes the stage stays inside
\* await process.stdout.readline(): it neither returns nor raises.
Build ==
    /\ pc = "build"
    /\ \E outcome \in BuildOutcomes(env) :
        IF OutputCloses(outcome)
        THEN LET update == build_node(state, outcome)
             IN  /\ Commit("build", update,
                           BuildTargets[check_build_result(ApplyWrites(state, update))])
                 /\ failedBuilds' = IF outcome = "exit0" THEN failedBuilds ELSE failedBuilds + 1
        ELSE /\ pc' = "build:readline"
             /\ stream' = Emit(stream, on_chain_start("build", phase = "run"))
             /\ UNCHANGED <<env, state, checkpoint, phase, executed, last, resumeArgs,
                            resumeFrom, started, nResumes, nRestarts, suspended,
                            failedBuilds, PENDING_BY_RUN, LAST_RUN_ID, call, ret>>
    /\ UNCHANGED sandbox

ErrorAnalysis ==
    /\ pc = "error_analysis"
    /\ \E reply \in ErrorAnalysisReplies :
        IF llm_helper_raises(env, reply)
        THEN Raise("error_analysis")
        ELSE /\ Commit("error_analysis",
                       error_analysis_node(state, analyze_errors(env, reply)), "memory_check")
             /\ UNCHANGED <<sandbox, failedBuilds>>

MemoryTargets == [retry |-> "fix_plan", escalate |-> "escalation"]

MemoryCheck ==
    /\ pc = "memory_check"
    /\ LET update == memory_check_node(state)
       IN  Commit("memory_check", update, MemoryTargets[check_memory(ApplyWrites(state, update))])
    /\ UNCHANGED <<sandbox, failedBuilds>>

FixPlan ==
    /\ pc = "fix_plan"
    /\ \E reply \in FixPlanReplies :
        IF generate_fix_plan_raises(env, reply)
        THEN Raise("fix_plan")
        ELSE /\ Commit("fix_plan", fix_plan_node(state, generate_fix_plan(env, reply)), "coding")
             /\ UNCHANGED <<sandbox, failedBuilds>>

Escalation ==
    /\ pc = "escalation"
    /\ \E reply \in EscalationReplies :
        IF escalate_issue_raises(env, reply)
        THEN Raise("escalation")
        ELSE /\ Commit("escalation", escalation_node(state, escalate_issue(env, reply)), "summary")
             /\ UNCHANGED <<sandbox, failedBuilds>>

Summary ==
    /\ pc = "summary"
    /\ \E reply \in SummaryReplies :
        IF generate_summary_raises(env, reply)
        THEN Raise("summary")
        ELSE /\ Commit("summary",
                       summary_node(state,
                           generate_summary(env, reply, Get(state, "diffs", <<>>),
                                            Get(state, "build_success", PyFalse),
                                            Get(state, "error_count", 0))),
                       "END")
             /\ UNCHANGED <<sandbox, failedBuilds>>

-----------------------------------------------------------------------------
(* Specification of a run of the agent *)


Init ==
    /\ env \in Environments
    /\ sandbox \in (IF env.root THEN SandboxChoices ELSE {EmptyFiles})
    /\ state = <<>>
    /\ pc = "idle"
    /\ checkpoint = NoCheckpoint
    /\ phase = "none"
    /\ executed = {}
    /\ last = "none"
    /\ resumeArgs = [approved |-> FALSE, approved_files |-> <<>>]
    /\ resumeFrom = "none"
    /\ started = FALSE
    /\ nResumes = 0
    /\ nRestarts = 0
    /\ suspended = FALSE
    /\ failedBuilds = 0
    /\ PENDING_BY_RUN = NoRuns
    /\ LAST_RUN_ID = None
    /\ call = NoCall
    /\ ret = None
    /\ stream = NoStream

Next ==
    \/ RunAgent
    \/ YellowAgentResume
    \/ Restart
    \/ ResumeRouter
    \/ StartAgent
    \/ ContextCheck
    \/ ReadCode
    \/ AnalyzeImports
    \/ RetrieveDocs
    \/ Research
    \/ UpdateMemory
    \/ Architect
    \/ YellowInit
    \/ YellowWorkflow
    \/ YellowVersioned
    \/ YellowMultiparty
    \/ YellowTip
    \/ YellowDeposit
    \/ WriteCode
    \/ AwaitApproval
    \/ Coding
    \/ Build
    \/ ErrorAnalysis
    \/ MemoryCheck
    \/ FixPlan
    \/ Escalation
    \/ Summary

Spec == Init /\ [][Next]_vars

\* The stages of the graph: the event loop runs the stage a stream is at.
StageStep ==
    \/ ResumeRouter \/ StartAgent \/ ContextCheck \/ ReadCode \/ AnalyzeImports
    \/ RetrieveDocs \/ Research \/ UpdateMemory \/ Architect \/ YellowInit
    \/ YellowWorkflow \/ YellowVersioned \/ YellowMultiparty \/ YellowTip
    \/ YellowDeposit \/ WriteCode \/ AwaitApproval \/ Coding \/ Build
    \/ ErrorAnalysis \/ MemoryCheck \/ FixPlan \/ Escalation \/ Summary

\* A run whose stream is open keeps being scheduled; requests and restarts
\* from outside are not assumed to happen.
SpecLive == Spec /\ WF_vars(StageStep)

\* A run and the resumption of its suspension inside one server process.
\* The event loop keeps running the stage the graph is at (astream_events is
\* awaited to its end).
NextRun == RunAgent \/ (suspended /\ YellowAgentResume) \/ StageStep

SpecRunLive == Init /\ [][NextRun]_vars /\ WF_vars(StageStep)

\* A run whose client calls resume after the run has ended
NextAgain == RunAgent \/ ResumeAgain \/ StageStep

SpecAgain == Init /\ [][NextAgain]_vars


-----------------------------------------------------------------------------
(* Specification of the routing functions and of write_code_node called on *)
(* a state of the caller's making, as scripts/test_agent_flow.py and       *)
(* scripts/test_error_handling_flow.py call the nodes                      *)

Without(s, k) == [x \in DOMAIN s \ {k} |-> s[x]]

ContextInputs ==
    LET full == { [ prompt |-> "p",
                    context_loop_count |-> n,
                    context_ready |-> r,
                    files_to_read |-> f,
                    file_contents |-> c,
                    missing_info |-> m,
                    docs_retrieved |-> d ] :
                    n \in 0..MaxLoopInput, r \in BOOLEAN, d \in BOOLEAN,
                    f \in {<<>>, <<"src/a.ts">>},
                    c \in {EmptyFiles, [p \in {"package.json"} |-> "c0"]},
                    m \in {<<>>, <<"API docs">>, <<"src/a.ts">>, <<"wallet flow">>} }
    IN  full \cup { Without(s, "context_loop_count") : s \in {x \in full : x.context_loop_count = 0} }

MemoryInputs ==
    { [prompt |-> "p"] } \cup { [prompt |-> "p", error_count |-> n] : n \in 0..MaxErrorInput }

ToolDiffInputs ==
    { <<>>,
      <<Diff("a", "", "T")>>,
      <<Diff("a", "", "T"), Diff("b", "", "T")>> }

MergeInputs ==
    { [ prompt |-> "p", file_contents |-> c, tool_diffs |-> td, diffs |-> <<>> ] :
        c \in {EmptyFiles, [p \in {"a"} |-> "c0"]}, td \in ToolDiffInputs }

\* replies of the code generator's model about the files "a" and "b"
UnitCoderObjects ==
    { [changes |-> <<>>, diffs |-> <<>>],
      [changes |-> <<[file |-> "a", search |-> None, replace |-> "L"]>>, diffs |-> <<>>],
      [changes |-> <<[file |-> "a", search |-> None, replace |-> "L"],
                     [file |-> "a", search |-> "L", replace |-> "L2"]>>, diffs |-> <<>>],
      [changes |-> <<>>, diffs |-> <<Diff("b", "T", "L")>>] }

\* states read_code_node is called on: requested paths that are new, already
\* loaded, or another spelling of a loaded path
ReadInputs ==
    { [ prompt |-> "p", files_to_read |-> f, file_contents |-> c, missing_info |-> m ] :
        f \in { <<>>, <<"package.json">>, <<"./package.json">>,
                <<"package.json", "src/a.ts">>, <<"src/a.ts", "src/a.ts">> },
        c \in { EmptyFiles, [p \in {"package.json"} |-> "c0"] },
        m \in { <<>>, <<"src/a.ts">>, <<"API docs">> } }

\* the sandbox at the time of the call: empty, or edited since the files were loaded
UnitSandboxes ==
    { EmptyFiles,
      [p \in {"package.json", "src/a.ts"} |-> IF p = "package.json" THEN "c1" ELSE "c0"] }

InitUnit ==
    /\ env = [OPENROUTER_API_KEY |-> TRUE, GOOGLE_API_KEY |-> TRUE, root |-> TRUE]
    /\ sandbox \in UnitSandboxes
    /\ state \in ContextInputs \cup MemoryInputs \cup MergeInputs \cup ReadInputs
    /\ pc = "idle"
    /\ checkpoint = NoCheckpoint
    /\ phase = "none"
    /\ executed = {}
    /\ last = "none"
    /\ resumeArgs = [approved |-> FALSE, approved_files |-> <<>>]
    /\ resumeFrom = "none"
    /\ started = FALSE
    /\ nResumes = 0
    /\ nRestarts = 0
    /\ suspended = FALSE
    /\ failedBuilds = 0
    /\ PENDING_BY_RUN = NoRuns
    /\ LAST_RUN_ID = None
    /\ call = NoCall
    /\ ret = None
    /\ stream = NoStream

UnitFrame ==
    UNCHANGED <<env, sandbox, pc, checkpoint, phase, executed, resumeArgs, resumeFrom,
                started, nResumes, nRestarts, suspended, failedBuilds,
                PENDING_BY_RUN, LAST_RUN_ID, stream>>

CallRouteContextDecision ==
    /\ call = NoCall
    /\ call' = [op |-> "route_context_decision", runId |-> None, file |-> None]
    /\ ret' = route_context_decision(state)
    /\ last' = "route_context_decision"
    /\ UNCHANGED state
    /\ UnitFrame

CallCheckMemory ==
    /\ call = NoCall
    /\ call' = [op |-> "check_memory", runId |-> None, file |-> None]
    /\ ret' = check_memory(state)
    /\ last' = "check_memory"
    /\ UNCHANGED state
    /\ UnitFrame

\* write_code_node with the code generator answering reply; ret keeps the
\* generator's diffs
CallWriteCodeNode ==
    /\ call = NoCall
    /\ \E reply \in UnitCoderObjects :
        /\ state' = write_code_node(state, reply)
        /\ ret' = write_code(Get(state, "file_contents", EmptyFiles),
                             Get(state, "tool_diffs", <<>>), reply)
    /\ call' = [op |-> "write_code_node", runId |-> None, file |-> None]
    /\ last' = "write_code"
    /\ UnitFrame

\* read_code_node on the sandbox; call keeps the paths handed to
\* read_text_file, ret the update the node returns
CallReadCodeNode ==
    /\ call = NoCall
    /\ LET update == read_code_node(state, env, sandbox)
       IN  /\ state' = ApplyWrites(state, update)
           /\ ret' = update
    /\ call' = [ op |-> "read_code_node", runId |-> None, file |-> None,
                 fetch |-> read_loop(read_code_paths(state),
                                     Get(state, "file_contents", EmptyFiles),
                                     env, sandbox).calls ]
    /\ last' = "read_code"
    /\ UnitFrame

NextUnit ==
    \/ CallRouteContextDecision
    \/ CallCheckMemory
    \/ CallWriteCodeNode
    \/ CallReadCodeNode

SpecUnit == InitUnit /\ [][NextUnit]_vars

-----------------------------------------------------------------------------
(* Specification of the pending-diff store under any sequence of calls *)

\* a path inside the sandbox and a path that leaves it
StoreFiles == {"f1", "../f2"}

StoreContents == {"n1", "n2"}

OptionalRunIds == RunIds \cup {None}

StoreFrame ==
    UNCHANGED <<env, sandbox, state, pc, checkpoint, phase, executed, last, resumeArgs,
                resumeFrom, started, nResumes, nRestarts, suspended, failedBuilds, stream>>

SetPendingDiff ==
    /\ \E runId \in RunIds, file \in StoreFiles, newCode \in StoreContents :
        LET after == set_pending_diff(Store, runId, file, "", newCode)
        IN  /\ PENDING_BY_RUN' = after.by_run
            /\ LAST_RUN_ID' = after.last
            /\ call' = [op |-> "set", runId |-> runId, file |-> file]
            /\ ret' = newCode
    /\ StoreFrame

GetPendingDiff ==
    /\ \E runId \in OptionalRunIds, file \in StoreFiles :
        LET out == get_pending_diff(Store, file, runId)
        IN  /\ PENDING_BY_RUN' = out.store.by_run
            /\ LAST_RUN_ID' = out.store.last
            /\ call' = [op |-> "get", runId |-> runId, file |-> file]
            /\ ret' = out.result
    /\ StoreFrame

PopPendingDiff ==
    /\ \E runId \in OptionalRunIds, file \in StoreFiles :
        LET out == pop_pending_diff(Store, file, runId)
        IN  /\ PENDING_BY_RUN' = out.store.by_run
            /\ LAST_RUN_ID' = out.store.last
            /\ call' = [op |-> "pop", runId |-> runId, file |-> file]
            /\ ret' = out.result
    /\ StoreFrame

ListPendingDiffs ==
    /\ \E runId \in OptionalRunIds :
        LET out == list_pending_diffs(Store, runId)
        IN  /\ PENDING_BY_RUN' = out.store.by_run
            /\ LAST_RUN_ID' = out.store.last
            /\ call' = [op |-> "list", runId |-> runId, file |-> None]
            /\ ret' = out.result
    /\ StoreFrame

ClearPendingDiffs ==
    /\ \E runId \in OptionalRunIds :
        LET out == clear_pending_diffs(Store, runId)
        IN  /\ PENDING_BY_RUN' = out.store.by_run
            /\ LAST_RUN_ID' = out.store.last
            /\ call' = [op |-> "clear", runId |-> runId, file |-> None]
            /\ ret' = out.result
    /\ StoreFrame

\* routes.apply_all; write_text_file raises at require_root without a root
ApplyAll ==
    /\ \E runId \in OptionalRunIds, approved \in BOOLEAN :
       \E order \in Orders(list_pending_diffs(Store, runId).result) :
        LET rootless == ~env.root /\ approved /\ order # <<>>
            applied == IF rootless
                       THEN [store |-> Store, fs |-> sandbox, raised |-> TRUE,
                             approved_files |-> <<>>]
                       ELSE apply_pending(Store, sandbox, runId, approved, order)
        IN  /\ sandbox' = applied.fs
            /\ PENDING_BY_RUN' = applied.store.by_run
            /\ LAST_RUN_ID' = applied.store.last
            /\ call' = [op |-> "apply_all", runId |-> runId, file |-> None,
                        approved |-> approved]
            /\ ret' = [raised |-> applied.raised, applied |-> Len(applied.approved_files)]
    /\ UNCHANGED <<env, state, pc, checkpoint, phase, executed, last, resumeArgs,
                   resumeFrom, started, nResumes, nRestarts, suspended, failedBuilds, stream>>

\* POST /api/diff/approve
ApproveDiff ==
    /\ \E runId \in OptionalRunIds, file \in StoreFiles, approved \in BOOLEAN :
        LET out == approve_diff(Store, sandbox, env.root, file, runId, approved)
        IN  /\ sandbox' = out.fs
            /\ PENDING_BY_RUN' = out.store.by_run
            /\ LAST_RUN_ID' = out.store.last
            /\ call' = [op |-> "approve", runId |-> runId, file |-> file,
                        approved |-> approved]
            /\ ret' = [status |-> out.status]
    /\ UNCHANGED <<env, state, pc, checkpoint, phase, executed, last, resumeArgs,
                   resumeFrom, started, nResumes, nRestarts, suspended, failedBuilds, stream>>

NextStore ==
    \/ ApplyAll
    \/ ApproveDiff
    \/ SetPendingDiff
    \/ GetPendingDiff
    \/ PopPendingDiff
    \/ ListPendingDiffs
    \/ ClearPendingDiffs

SpecStore == Init /\ [][NextStore]_vars


-----------------------------------------------------------------------------
(* Specification of one run_agent stream fed with any sequence of state    *)
(* updates: the stage names and chunks are drawn, not computed by stages   *)

MaxChunks == 3

StreamStages == {"read_code", "write_code"}

StreamChunks ==
    LET trees == {get_file_tree(fs) : fs \in SandboxChoices}
        contents == { [p \in {"package.json"} |-> "c0"],
                      [p \in {"package.json"} |-> "c1"],
                      [p \in {"package.json", "src/a.ts"} |-> "c0"] }
    IN  {[thinking_log |-> <<>>]}
        \cup {[tree |-> tr] : tr \in trees}
        \cup {[file_contents |-> c] : c \in contents}
        \cup {[tree |-> tr, file_contents |-> c] : tr \in trees, c \in contents}

StreamFrame ==
    UNCHANGED <<env, sandbox, state, pc, checkpoint, executed, last, resumeArgs,
                resumeFrom, started, nResumes, nRestarts, suspended, failedBuilds,
                PENDING_BY_RUN, LAST_RUN_ID, ret>>

\* run_agent up to the engine's stream
StreamOpening ==
    /\ phase = "none"
    /\ phase' = "run"
    /\ stream' = run_agent_opening(env, sandbox)
    /\ call' = [op |-> "run_agent", name |-> None, chunk |-> <<>>]
    /\ StreamFrame

\* one stage of the engine's stream: start, state update, end
StreamChunk ==
    /\ phase = "run"
    /\ Cardinality({i \in 1..Len(stream.events) : stream.events[i].type = "tool_end"}) < MaxChunks
    /\ \E name \in StreamStages, chunk \in StreamChunks :
        /\ stream' = stage_events(stream, name, chunk, TRUE)
        /\ call' = [op |-> "on_chain_stream", name |-> name, chunk |-> chunk]
    /\ UNCHANGED phase
    /\ StreamFrame

NextStream ==
    \/ StreamOpening
    \/ StreamChunk

SpecStream == Init /\ [][NextStream]_vars

-----------------------------------------------------------------------------
(* Properties *)

\* C1: whenever context_loop_count exceeds 4, route_context_decision answers
\* "ready", whatever context_ready, files_to_read, file_contents, missing_info
\* and docs_retrieved hold.
C1_CeilingForcesReady ==
    (call.op = "route_context_decision" /\ Get(state, "context_loop_count", 0) > 4)
        => ret = "ready"

\* a call past the ceiling on a state that would otherwise ask to read code
C1_Witness ==
    /\ call.op = "route_context_decision"
    /\ Get(state, "context_loop_count", 0) = 5
    /\ ~Get(state, "context_ready", FALSE)
    /\ Get(state, "files_to_read", <<>>) # <<>>
    /\ ret = "ready"

\* C2: check_memory answers "escalate" exactly when error_count is greater
\* than 3, and "retry" for 0..3; a state without error_count counts as 0.
C2_CheckMemoryThreshold ==
    call.op = "check_memory" =>
        /\ "error_count" \notin DOMAIN state => ret = "retry"
        /\ ("error_count" \in DOMAIN state /\ state.error_count \in 0..3) => ret = "retry"
        /\ ("error_count" \in DOMAIN state /\ state.error_count > 3) => ret = "escalate"

\* both sides of the threshold are called: this one is the last retry
C2_Witness ==
    /\ call.op = "check_memory"
    /\ "error_count" \in DOMAIN state
    /\ state.error_count = 3
    /\ ret = "retry"

PreApprovalStages ==
    {"start_agent", "context_check", "read_code", "analyze_imports", "retrieve_docs",
     "research", "update_memory", "architect", "yellow_init", "yellow_workflow",
     "yellow_versioned", "yellow_multiparty", "yellow_tip", "yellow_deposit",
     "write_code", "await_approval"}

\* C3: in the execution resume_agent(runId, approved = true, approved_files = F)
\* starts from the checkpoint of a run suspended at await_approval, the entry
\* router hands over to coding, no stage from start_agent to await_approval
\* executes, and the state has awaiting_approval = false and approved_files = F.
C3_ResumeContinuesAtCoding ==
    (phase = "resume" /\ resumeFrom = "await_approval" /\ resumeArgs.approved /\ pc # "idle")
        => /\ executed \cap PreApprovalStages = {}
           /\ last = "resume_router" => pc = "coding"
           /\ executed \ {"resume_router"} # {} => "coding" \in executed
           /\ state.awaiting_approval = FALSE
           /\ state.approved_files = resumeArgs.approved_files

\* an approved resume of a suspended run that has run coding and ended
C3_Witness ==
    /\ phase = "resume"
    /\ resumeFrom = "await_approval"
    /\ resumeArgs.approved
    /\ resumeArgs.approved_files = <<"package.json">>
    /\ "coding" \in executed
    /\ pc = "END"

\* C4: at the suspension of await_approval the saved run state has
\* awaiting_approval = true and pending_approval_files = the paths of diffs.
C4_SuspendedStateMarksApproval ==
    pc = "interrupted" =>
        /\ checkpoint.values.awaiting_approval = TRUE
        /\ checkpoint.values.pending_approval_files = diff_files(checkpoint.values.diffs)

\* C5: a step of await_approval on diffs without any file path does not
\* suspend: the same execution goes on to coding with awaiting_approval false.
C5_NoFilesNoSuspension ==
    [][ (pc = "await_approval" /\ diff_files(Get(state, "diffs", <<>>)) = <<>>)
            => /\ pc' = "coding"
               /\ phase' = phase
               /\ ~suspended'
               /\ state'.awaiting_approval = FALSE ]_vars

\* await_approval has returned on empty diffs and coding is next
C5_Witness ==
    /\ last = "await_approval"
    /\ Get(state, "diffs", <<>>) = <<>>
    /\ pc = "coding"
    /\ phase = "run"
    /\ ~suspended

\* C6: once a run is suspended at the approval gate, its snapshot and pending
\* stage stay readable across a process restart.
C6_SuspensionSurvivesRestart ==
    (suspended /\ nRestarts > 0) => checkpoint.next = "await_approval"

\* C7: a run that is not suspended never ends in a raised exception; it ends
\* after summary has executed, with a non-empty final_summary.
C7_RunsEndInSummary ==
    phase = "run" =>
        /\ pc # "raised"
        /\ pc = "END" => ("summary" \in executed /\ state.final_summary # <<>>)

\* C8: while every build of the run has failed, a step of memory_check raises
\* error_count by one, to the number of failed builds, and routes to fix_plan
\* for 1, 2, 3 and to escalation for 4; a step of escalation leaves
\* escalation_needed = true and a non-empty final_summary.
C8_FourFailuresEscalate ==
    [][ Get(state, "build_success", None) # PyTrue =>
            /\ pc = "memory_check" =>
                  /\ state'.error_count = Get(state, "error_count", 0) + 1
                  /\ state'.error_count = failedBuilds
                  /\ state'.error_count \in 1..3 => pc' = "fix_plan"
                  /\ state'.error_count >= 4 => (state'.error_count = 4 /\ pc' = "escalation")
            /\ pc = "escalation" =>
                  /\ Get(state', "escalation_needed", FALSE)
                  /\ Get(state', "final_summary", <<>>) # <<>> ]_vars

\* C9: after write_code_node no two entries of diffs have the same file path,
\* and every diff of the code generator is an entry of diffs.
C9_OneEntryPerPath ==
    call.op = "write_code_node" =>
        /\ \A i, j \in 1..Len(state.diffs) :
              i # j => state.diffs[i].file # state.diffs[j].file
        /\ \A k \in 1..Len(ret) : \E i \in 1..Len(state.diffs) : state.diffs[i] = ret[k]

\* C10: a get, pop, list or clear without runId leaves the store as it was and
\* returns not-found (None) or the empty listing.
C10_NoRunIdFailsClosed ==
    [][ (call'.op \in {"get", "pop", "list", "clear"} /\ call'.runId = None)
            => /\ PENDING_BY_RUN' = PENDING_BY_RUN
               /\ LAST_RUN_ID' = LAST_RUN_ID
               /\ IF call'.op = "list" THEN ret' = {} ELSE ret' = None ]_vars

\* C11: a store operation issued for run r leaves the pending diffs of every
\* other run as they were, and leaves untouched the shared last-run pointer
\* (the run that calls without runId resolve to) when it belongs to another run.
C11_RunsArePartitioned ==
    [][ \A r \in RunIds :
            (call'.op \in {"set", "get", "pop", "list", "clear"} /\ call'.runId = r)
                => /\ \A other \in RunIds \ {r} :
                         PerRun(Store', other) = PerRun(Store, other)
                   /\ LAST_RUN_ID \in RunIds \ {r} => LAST_RUN_ID' = LAST_RUN_ID ]_vars

\* C12: the build stage always terminates: a run that is at build gets past
\* it, to summary or to error_analysis, whatever the subprocess does.
C12_BuildTerminates ==
    (pc = "build") ~> (pc \in {"summary", "error_analysis"})

C14_TerminalOutputAppendOnly ==
    [][ Streaming
            => IsPrefix(Get(state, "terminal_output", <<>>),
                        Get(state', "terminal_output", <<>>)) ]_vars

\* C15: every stage that runs to its end, on its success path or on a failure
\* it handles, lengthens thinking_log by exactly one entry (the entry router and
\* start_agent, which only prepare the state, are not counted as stages).
C15_OneLogEntryPerStage ==
    [][ ( /\ Streaming
          /\ pc \notin {"resume_router", "start_agent"}
          /\ pc' \notin {"raised", "interrupted", "build:readline"} )
            => Len(Get(state', "thinking_log", <<>>))
                 = Len(Get(state, "thinking_log", <<>>)) + 1 ]_vars

ScaffoldStages ==
    {"yellow_init", "yellow_workflow", "yellow_versioned", "yellow_multiparty",
     "yellow_tip", "yellow_deposit"}

\* C16: no step of a scaffold stage changes the files of the target repository.
C16_ScaffoldLeavesFilesAlone ==
    [][ (pc \in ScaffoldStages) => (sandbox' = sandbox) ]_vars

\* the flag each gated scaffold stage reads, the status field it owns and the
\* template file its tool injects
ScaffoldGate ==
    [ yellow_init |-> [flag |-> "needs_yellow", status |-> "yellow_init_status",
                       template |-> ".env"],
      yellow_multiparty |-> [flag |-> "needs_multiparty", status |-> "yellow_multiparty_status",
                             template |-> "scripts/yellow-multiparty.ts"],
      yellow_versioned |-> [flag |-> "needs_versioned", status |-> "yellow_versioned_status",
                            template |-> "src/yellow/version.ts"],
      yellow_tip |-> [flag |-> "needs_tip", status |-> "yellow_tip_status",
                      template |-> "src/lib/yellow/tip.ts"],
      yellow_deposit |-> [flag |-> "needs_deposit", status |-> "yellow_deposit_status",
                          template |-> "src/lib/yellow/deposit.ts"] ]

\* C17: a step of a gated scaffold stage whose flag is false sets the stage's
\* own status field to "skipped", leaves the repository alone and changes no
\* state field other than that status and thinking_log.
C17_GateFalseSkips ==
    [][ \A st \in DOMAIN ScaffoldGate :
            (pc = st /\ ~Get(state, ScaffoldGate[st].flag, FALSE))
                => /\ Get(state', ScaffoldGate[st].status, "") = "skipped"
                   /\ sandbox' = sandbox
                   /\ DOMAIN state' \subseteq
                         DOMAIN state \cup {ScaffoldGate[st].status, "thinking_log"}
                   /\ \A k \in DOMAIN state \ {ScaffoldGate[st].status, "thinking_log"} :
                         state'[k] = state[k] ]_vars

\* C18: when a gated scaffold stage runs with its flag true on a repository
\* its tool accepts, and the tool's diff for its template file is not None,
\* that diff is an element of tool_diffs in the state after the stage.
C18_ToolDiffReachesState ==
    [][ \A st \in DOMAIN ScaffoldGate :
            LET proposal == make_diff(sandbox, ScaffoldGate[st].template, "template")
            IN  ( /\ pc = st
                  /\ Get(state, ScaffoldGate[st].flag, FALSE)
                  /\ Get(state, "repo_path", "") # ""
                  /\ "package.json" \in DOMAIN sandbox
                  /\ proposal # <<>> )
                    => \E i \in 1..Len(Get(state', "tool_diffs", <<>>)) :
                          state'.tool_diffs[i] = proposal[1] ]_vars

\* C19: the paths read_code hands to the filesystem are those, not yet
\* loaded, of the list chosen by priority: files_to_read when non-empty, else
\* the bootstrap list when file_contents is empty, else the file-like entries
\* of missing_info.
C19_ReadCodePriority ==
    [][ call'.op = "read_code_node" =>
            LET requested == Get(state, "files_to_read", <<>>)
                loaded == DOMAIN Get(state, "file_contents", EmptyFiles)
                chosen == IF requested # <<>> THEN requested
                          ELSE IF loaded = {} THEN BootstrapFiles
                          ELSE SelectSeq(Get(state, "missing_info", <<>>), FileLike)
            IN  Range(call'.fetch) = Range(chosen) \ loaded ]_vars

\* C20: read_code hands no path to the filesystem that names a file already
\* loaded in file_contents, and the content stored for every loaded path is
\* the same after the stage.
C20_ReadSkip ==
    [][ call'.op = "read_code_node" =>
            LET loaded == Get(state, "file_contents", EmptyFiles)
            IN  \A p \in DOMAIN loaded :
                   /\ \A i \in 1..Len(call'.fetch) :
                         normalize_and_validate_rel_path(call'.fetch[i]) # p
                   /\ p \in DOMAIN Get(state', "file_contents", EmptyFiles)
                   /\ state'.file_contents[p] = loaded[p] ]_vars

\* C21: a step of the summary stage never raises, and when no summarizer key
\* is configured it sets final_summary to a non-empty text that holds the
\* build status line and the number of entries of diffs.
C21_SummaryFallback ==
    [][ (pc = "summary" /\ pc' \in {"END", "raised"}) =>
            /\ pc' = "END"
            /\ ~env.GOOGLE_API_KEY =>
                  /\ state'.final_summary # <<>>
                  /\ ("**Status:** " \o (IF Get(state, "build_success", PyFalse) = PyTrue
                                         THEN "Success" ELSE "Failed"))
                        \in Range(state'.final_summary)
                  /\ ("**Files Changed:** " \o ToString(Len(Get(state, "diffs", <<>>))))
                        \in Range(state'.final_summary) ]_vars

\* C22: run_finished is never followed by another event and is emitted at
\* most once per stream; a stream that is over (the graph completed, a stage
\* raised, or the run was suspended) ends with it, and in a suspended run it
\* carries interrupted = true and follows an awaiting_user_review event that
\* lists the files of diffs.
C22_StreamEndsWithRunFinished ==
    LET evs == stream.events
        finished == {i \in 1..Len(evs) : evs[i].type = "run_finished"}
    IN  /\ finished \subseteq {Len(evs)}
        /\ pc \in {"END", "raised", "interrupted"} => finished = {Len(evs)}
        /\ pc = "interrupted" =>
              /\ Get(evs[Len(evs)], "interrupted", FALSE)
              /\ \E i \in 1..Len(evs) :
                    /\ evs[i].type = "awaiting_user_review"
                    /\ evs[i].files = diff_files(Get(state, "diffs", <<>>))

C24_FileContentOnlyWhenChanged ==
    [][ (call'.op = "on_chain_stream") =>
            LET added == SubSeq(stream'.events, Len(stream.events) + 1, Len(stream'.events))
                emitted == {i \in 1..Len(added) : added[i].type = "file_content"}
            IN  /\ (call'.name \in READ_ONLY_NODES) => (emitted = {})
                /\ \A i \in emitted :
                      /\ "file_contents" \in DOMAIN call'.chunk
                      /\ added[i].path \in DOMAIN call'.chunk.file_contents
                      /\ added[i].content = call'.chunk.file_contents[added[i].path]
                      /\ \/ added[i].path \notin DOMAIN stream.sent_file_contents
                         \/ stream.sent_file_contents[added[i].path] # added[i].content ]_vars

\* an update of write_code that changes a file a read-only stage had recorded
C24_Witness ==
    /\ call.op = "on_chain_stream"
    /\ call.name = "write_code"
    /\ \E i, j \in 1..Len(stream.events) :
          /\ i < j
          /\ stream.events[i] = [type |-> "tool_end", name |-> "read_code"]
          /\ stream.events[j] = [type |-> "file_content", path |-> "package.json", content |-> "c1"]
          /\ j = Len(stream.events) - 1
    /\ ~\E j \in 1..Len(stream.events) :
          stream.events[j] = [type |-> "file_content", path |-> "package.json", content |-> "c0"]

C26_RejectionDiscards ==
    [][ /\ ( /\ call'.op = "yellow_agent_resume"
             /\ nResumes' = nResumes + 1
             /\ ~call'.approved
             /\ env.root
             /\ checkpoint.next = "await_approval" ) =>
                /\ sandbox' = sandbox
                /\ PerRun(Store', RunId) = EmptyFiles
                /\ resumeArgs' = [approved |-> FALSE, approved_files |-> <<>>]
                /\ state'.approved_files = <<>>
                /\ pc' = "resume_router"
        /\ ( /\ phase = "resume"
             /\ ~resumeArgs.approved
             /\ resumeFrom = "await_approval" ) =>
                /\ (pc = "resume_router") => (pc' = "coding")
                /\ (pc = "coding") => (pc' = "build") ]_vars

\* a rejected run with a pending diff for package.json that has reached build
\* with the file untouched
C26_Witness ==
    /\ call.op = "yellow_agent_resume"
    /\ ~call.approved
    /\ phase = "resume"
    /\ resumeFrom = "await_approval"
    /\ Len(Get(state, "diffs", <<>>)) > 0
    /\ state.diffs[1].file = "package.json"
    /\ sandbox["package.json"] = "c0"
    /\ PerRun(Store, RunId) = EmptyFiles
    /\ state.approved_files = <<>>
    /\ executed = {"resume_router", "coding"}
    /\ pc = "build"

\* C27: a resume_agent stream that found no snapshot executes no stage and
\* holds an event that the stream of a resume ended by a raising stage does
\* not hold (the failure is reported in a way of its own).
C27_NoSnapshotReportedDistinctly ==
    (phase = "resume" /\ resumeFrom = "none" /\ pc \in {"END", "raised"}) =>
        /\ executed = {}
        /\ \E i \in 1..Len(stream.events) :
              stream.events[i] \notin
                  Range(resume_agent_closing(resume_agent_opening, "raised").events)

\* C28: an approve-all with the sandbox root set writes the newCode of every
\* pending diff of the run whose path the filesystem layer accepts, whatever
\* it rejects among the others, and is not left by the rejection (it goes on
\* to clear the pending diffs and, in the resume handler, to resume_agent).
C28_RejectedWriteIsSkipped ==
    [][ (call'.op = "apply_all" /\ call'.approved /\ env.root) =>
            LET per_run == PerRun(Store, _resolve_run_id(Store, call'.runId))
            IN  /\ \A f \in DOMAIN per_run :
                      ~write_rejects(f) =>
                          /\ normalize_and_validate_rel_path(f) \in DOMAIN sandbox'
                          /\ sandbox'[normalize_and_validate_rel_path(f)] = per_run[f].newCode
                /\ ~ret'.raised ]_vars

\* C29: a step of context_check that returns raises context_loop_count by
\* exactly 1 and a step of any other stage leaves it as it was; context_check
\* ends at most 5 times in a run; and a run that is at context_check reaches
\* architect unless a stage raises on the way.
C29_ContextLoopBounded ==
    /\ [][ /\ (pc = "context_check" /\ pc' # "raised") =>
                  (state'.context_loop_count = Get(state, "context_loop_count", 0) + 1)
           /\ (Streaming /\ pc # "context_check") =>
                  (Get(state', "context_loop_count", 0) = Get(state, "context_loop_count", 0)) ]_vars
    /\ [](phase = "run" =>
            Cardinality({i \in 1..Len(stream.events) :
                stream.events[i] = [type |-> "tool_end", name |-> "context_check"]}) <= 5)
    /\ ((phase = "run" /\ pc = "context_check") ~> (pc \in {"architect", "raised"}))

\* the fifth context_check of a run has ended and handed over to architect
C29_Witness ==
    /\ phase = "run"
    /\ pc = "architect"
    /\ state.context_loop_count = 5
    /\ ~state.context_ready
    /\ Cardinality({i \in 1..Len(stream.events) :
           stream.events[i] = [type |-> "tool_end", name |-> "context_check"]}) = 5

\* the number of times a stage has run to its end in the current stream
Ended(name) ==
    Cardinality({i \in 1..Len(stream.events) :
        stream.events[i] = [type |-> "tool_end", name |-> name]})

C31_SecondFailureFakesSuccess ==
    [][ (pc = "build" /\ failedBuilds >= 1 /\ failedBuilds' = failedBuilds + 1) =>
            (state'.build_success = PyTrue /\ pc' = "summary") ]_vars

\* C32: a step of retrieve_docs leaves docs_retrieved = true whatever the
\* search came to; no later stage step and no resumption of the run makes
\* it false again; retrieve_docs runs at most once in a run.
C32_DocsRetrievedStays ==
    /\ [][ /\ (pc = "retrieve_docs") => (state'.docs_retrieved = TRUE)
           /\ (Get(state, "docs_retrieved", FALSE) /\ pc' \notin {"idle", "END", "raised"}) =>
                  Get(state', "docs_retrieved", FALSE) ]_vars
    /\ [](Ended("retrieve_docs") <= 1)
    /\ [](("retrieve_docs" \in executed /\ state # <<>>) => Get(state, "docs_retrieved", FALSE))

\* the search failed inside retrieve_docs and the run went on to architect
C32_Witness ==
    /\ pc = "architect"
    /\ "retrieve_docs" \in executed
    /\ state.docs_retrieved
    /\ state.doc_context # "Yellow SDK docs"

C34_FlaggedScaffoldsExecute ==
    (phase = "run" /\ pc = "write_code") =>
        /\ Get(state, "needs_versioned", FALSE) => "yellow_versioned" \in executed
        /\ Get(state, "needs_multiparty", FALSE) => "yellow_multiparty" \in executed
        /\ Get(state, "needs_tip", FALSE) => "yellow_tip" \in executed
        /\ Get(state, "needs_deposit", FALSE) => "yellow_deposit" \in executed

\* C35: a run gets to summary only from a build that left build_success true
\* or from escalation; it gets to escalation only from a memory_check that
\* left error_count above 3; and whenever escalation_needed is true,
\* error_count is above 3.
C35_SummaryAndEscalationEntries ==
    /\ [][ /\ (pc' = "summary" /\ pc # "summary") =>
                  \/ (pc = "build" /\ state'.build_success = PyTrue)
                  \/ pc = "escalation"
           /\ (pc' = "escalation" /\ pc # "escalation") =>
                  (pc = "memory_check" /\ state'.error_count > 3) ]_vars
    /\ [](Get(state, "escalation_needed", FALSE) => Get(state, "error_count", 0) > 3)

\* an escalated run that went through summary after a resumption
C35_Witness ==
    /\ pc = "END"
    /\ phase = "resume"
    /\ Get(state, "escalation_needed", FALSE)
    /\ state.build_success = PyFalse
    /\ {"escalation", "summary"} \subseteq executed

\* C36: a step of fix_plan leaves the pending-diff store as it was, and no
\* stage from a failed build up to the next build (error_analysis,
\* memory_check, fix_plan, coding) changes the sandbox.
C36_FixPlanDiffsStayInternal ==
    [][ /\ (pc = "fix_plan") => (PENDING_BY_RUN' = PENDING_BY_RUN)
        /\ (pc \in {"error_analysis", "memory_check", "fix_plan", "coding"}) =>
               (sandbox' = sandbox) ]_vars

\* C37: a resume called for a run that is not suspended at await_approval
\* because it has reached its end executes no stage: no stream is running
\* after the call.
C37_ResumeOnlyWhenSuspended ==
    [][ (call'.op = "yellow_agent_resume" /\ nResumes' = nResumes + 1
            /\ started /\ ~suspended /\ pc = "END") => ~Streaming' ]_vars

\* C38: while a run is suspended at await_approval after its first stream,
\* the pending diffs of its run id are exactly the files named by the diffs
\* of its state, each with the newCode of the last diff that names the file.
C38_PendingMatchesDiffs ==
    (phase = "run" /\ pc = "interrupted") =>
        LET diffs == Get(state, "diffs", <<>>)
            named == SelectSeq(diffs, LAMBDA d : "file" \in DOMAIN d)
            per_run == PerRun(Store, RunId)
        IN  /\ DOMAIN per_run = {named[i].file : i \in 1..Len(named)}
            /\ \A f \in DOMAIN per_run :
                  \E i \in 1..Len(named) :
                     /\ named[i].file = f
                     /\ per_run[f].file = f
                     /\ per_run[f].newCode = Get(named[i], "newCode", "")
                     /\ \A j \in (i + 1)..Len(named) : named[j].file # f

\* a suspended run whose diffs name one file twice
C38_Witness ==
    /\ phase = "run"
    /\ pc = "interrupted"
    /\ Len(diff_files(Get(state, "diffs", <<>>))) > Cardinality(DOMAIN PerRun(Store, RunId))
    /\ Cardinality(DOMAIN PerRun(Store, RunId)) >= 1

\* C39: in the terminal state of a run that went through escalation,
\* final_summary is what the summary stage produced from the state (the
\* summarizer's stripped reply or the template), whatever message
\* escalation had set, and escalation_needed is still true.
C39_SummaryOverwritesEscalation ==
    (pc = "END" /\ "escalation" \in executed) =>
        /\ Get(state, "escalation_needed", FALSE)
        /\ state.final_summary \in
              { generate_summary(env, reply, Get(state, "diffs", <<>>),
                                 Get(state, "build_success", PyFalse),
                                 Get(state, "error_count", 0)) :
                    reply \in SummaryReplies \ {Unreachable} }

\* an escalated run that ended with the summarizer's own text
C39_Witness ==
    /\ pc = "END"
    /\ {"escalation", "summary"} \subseteq executed
    /\ Get(state, "escalation_needed", FALSE)
    /\ state.final_summary = <<"LLM summary">>
    /\ last = "summary"

\* C40: an approve_diff call that finds no pending diff for the file answers
\* not-found and changes neither the store nor the sandbox; one whose write
\* is rejected by the filesystem layer leaves the diff pending for the file.
C40_ApproveDiffFailureKeepsStore ==
    [][ (call'.op = "approve") =>
           /\ (ret'.status = "not_found") =>
                  /\ call'.file \notin
                        DOMAIN PerRun(Store, _resolve_run_id(Store, call'.runId))
                  /\ PENDING_BY_RUN' = PENDING_BY_RUN
                  /\ LAST_RUN_ID' = LAST_RUN_ID
                  /\ sandbox' = sandbox
           /\ (ret'.status = "raised") =>
                  /\ sandbox' = sandbox
                  /\ LET after == [by_run |-> PENDING_BY_RUN', last |-> LAST_RUN_ID']
                     IN  call'.file \in
                            DOMAIN PerRun(after, _resolve_run_id(after, call'.runId))
      ]_vars

====
